---------------------------- MODULE Spec2Model ----------------------------
(***************************************************************************)
(* Starship Architect: the placement / geometry engine.                    *)
(*                                                                         *)
(* State machine of the placement store (shipData.componentPlacements),    *)
(* the two history stacks and the session flags (uiState, resizeState),    *)
(* with one action per browser event handler.                              *)
(*                                                                         *)
(* Lengths are integers counted in units of 1/20 meter (U units = 1 m):    *)
(* the program's sizes are multiples of 0.1 m (component-dimensions.js     *)
(* addOption and commitResize both round to 0.1 m) and the handlers halve  *)
(* them to centre a rectangle on the pointer.  The resize transform        *)
(* divides, so it is computed on exact fractions <<n, d>>.                 *)
(* A handler that throws (a TypeError on an `undefined` list element)      *)
(* stops where it throws and keeps the assignments made before.            *)
(***************************************************************************)
EXTENDS Integers, Sequences, FiniteSets, TLC

\* ------------------------------------------------------------------------
\* Units and configuration
\* ------------------------------------------------------------------------

\* units per meter
U == 20

\* shipData.numFloors of the modelled ship
numFloors == 2

\* shipData.floorLength (meters) and the derived floor width, in units:
\* a 5 m x 2.5 m floor
floorLength == 5 * U
floorWidth == (5 * U) \div 2

\* bound on the number of state-changing events of a session
MaxEvents == 6

Floors == 1..numFloors

\* shipData.components: index -> quantity, multi-floor flag and the
\* length x width (units) offered by the dimension dropdown
NumComponents == 2
Components == 0..(NumComponents - 1)

Catalog ==
    [c \in Components |->
        IF c = 0
        THEN [quantity |-> 2, isMultiFloor |-> FALSE, length |-> 2 * U, width |-> U]
        ELSE [quantity |-> 1, isMultiFloor |-> TRUE,
              length |-> (5 * U) \div 2, width |-> (5 * U) \div 2]]

\* pointer positions (units) delivered with click events
ClickXs == {U \div 2, (5 * U) \div 2, (9 * U) \div 2}
ClickYs == {U \div 2, 2 * U}

\* pointer displacements (units) of a resize drag
Deltas == {-U, U}

Edges == {"top", "bottom", "left", "right"}

\* ------------------------------------------------------------------------
\* Arithmetic
\* ------------------------------------------------------------------------

Max(a, b) == IF a >= b THEN a ELSE b
Min(a, b) == IF a <= b THEN a ELSE b

\* Math.round(v) for v in meters: the nearest whole meter, halves upwards
RoundMeter(v) == U * ((2 * v + U) \div (2 * U))

\* Exact fractions <<n, d>> with d > 0, in lowest terms
RECURSIVE Gcd(_, _)
Gcd(a, b) == IF b = 0 THEN a ELSE Gcd(b, a % b)
Abs(a) == IF a < 0 THEN -a ELSE a
QNorm(n, d) ==
    LET g == Max(1, Gcd(Abs(n), Abs(d)))
        sgn == IF d < 0 THEN -1 ELSE 1
    IN  << (sgn * n) \div g, (sgn * d) \div g >>
Q(n) == << n, 1 >>
QAdd(a, b) == QNorm(a[1] * b[2] + b[1] * a[2], a[2] * b[2])
QSub(a, b) == QNorm(a[1] * b[2] - b[1] * a[2], a[2] * b[2])
QDiv(a, b) == QNorm(a[1] * b[2], a[2] * b[1])
QLe(a, b) == a[1] * b[2] <= b[1] * a[2]
QLt(a, b) == a[1] * b[2] < b[1] * a[2]
QMax(a, b) == IF QLe(b, a) THEN a ELSE b
QMin(a, b) == IF QLe(a, b) THEN a ELSE b

\* Math.round(v * 10) / 10: the nearest 0.1 m (2 units), halves upwards
RoundTenth(q) == 2 * ((q[1] + q[2]) \div (2 * q[2]))

\* ------------------------------------------------------------------------
\* The placement store
\* ------------------------------------------------------------------------

\* An `undefined` element of a floors array (spliced in by a rejected move
\* of a stale selection); reading its .floor throws.
Hole == [floor |-> 0, x |-> 0, y |-> 0, length |-> 0, width |-> 0]
IsHole(p) == p.floor = 0

NoEntry == [present |-> FALSE, floors |-> <<>>]
EmptyStore == [c \in Components |-> NoEntry]

RECURSIVE EntriesFrom(_, _, _)
\* Object.entries(componentPlacements) flattened: the placements of the
\* components from c on, in key order, without those of `exclude`
EntriesFrom(cp, c, exclude) ==
    IF c >= NumComponents THEN <<>>
    ELSE (IF cp[c].present /\ c # exclude THEN cp[c].floors ELSE <<>>)
         \o EntriesFrom(cp, c + 1, exclude)

HasHole(cp) ==
    \E c \in Components : cp[c].present /\
        \E i \in 1..Len(cp[c].floors) : IsHole(cp[c].floors[i])

\* a coarser test: only a candidate whose top-left corner lies inside the
\* placement counts as overlapping
CornerInside(x, y, length, width, p) ==
    /\ p.x * x[2] <= x[1] /\ x[1] < (p.x + p.length) * x[2]
    /\ p.y * y[2] <= y[1] /\ y[1] < (p.y + p.width) * y[2]

\* a stricter test: rectangles that share an edge or a corner count as
\* overlapping too
RectsMeet(x, y, length, width, p) ==
    ~(\/ x[1] * length[2] + length[1] * x[2] < p.x * x[2] * length[2]
      \/ (p.x + p.length) * x[2] < x[1]
      \/ y[1] * width[2] + width[1] * y[2] < p.y * y[2] * width[2]
      \/ (p.y + p.width) * y[2] < y[1])

\* the separating-axis test; the candidate rectangle is given as fractions
\* and a + b <= n is compared as a1*b2 + b1*a2 <= n*a2*b2
RectsOverlap(x, y, length, width, p) ==
    ~(\/ x[1] * length[2] + length[1] * x[2] <= p.x * x[2] * length[2]
      \/ (p.x + p.length) * x[2] <= x[1]
      \/ y[1] * width[2] + width[1] * y[2] <= p.y * y[2] * width[2]
      \/ (p.y + p.width) * y[2] <= y[1])

\* splice(i, 1) on a 1-based sequence (i beyond the end removes nothing)
RemoveAt(seq, i) ==
    IF i < 1 \/ i > Len(seq) THEN seq
    ELSE SubSeq(seq, 1, i - 1) \o SubSeq(seq, i + 1, Len(seq))

\* splice(i, 0, e) on a 1-based sequence (i beyond the end appends)
InsertAt(seq, i, e) ==
    IF i > Len(seq) THEN Append(seq, e)
    ELSE SubSeq(seq, 1, i - 1) \o <<e>> \o SubSeq(seq, i, Len(seq))

\* the overlap test without the floor comparison
checkOverlapAnyFloor(cp, floorIndex, x, y, length, width, excludeComponentIndex) ==
    LET all == EntriesFrom(cp, 0,
                   IF excludeComponentIndex >= 0 THEN excludeComponentIndex ELSE -1)
        Stops(i) == IsHole(all[i]) \/ RectsOverlap(x, y, length, width, all[i])
        hits == {i \in 1..Len(all) : Stops(i)}
    IN  IF hits = {} THEN "false"
        ELSE LET first == CHOOSE i \in hits : \A j \in hits : i <= j
             IN  IF IsHole(all[first]) THEN "throw" ELSE "true"

\* checkOverlap: "true", "false", or "throw" when an undefined element is
\* read before an overlapping placement is found; x, y, length and width
\* are fractions
checkOverlap(cp, floorIndex, x, y, length, width, excludeComponentIndex) ==
    LET all == EntriesFrom(cp, 0,
                   IF excludeComponentIndex >= 0 THEN excludeComponentIndex ELSE -1)
        Stops(i) == IsHole(all[i]) \/
                    (all[i].floor = floorIndex /\ RectsOverlap(x, y, length, width, all[i]))
        hits == {i \in 1..Len(all) : Stops(i)}
    IN  IF hits = {} THEN "false"
        ELSE LET first == CHOOSE i \in hits : \A j \in hits : i <= j
             IN  IF IsHole(all[first]) THEN "throw" ELSE "true"

\* ------------------------------------------------------------------------
\* Position resolver
\* ------------------------------------------------------------------------

RECURSIVE ObstacleCandidates(_, _, _, _, _)
\* the 8 candidates per obstacle, in the order they are pushed
ObstacleCandidates(obs, origX, origY, compLength, compWidth) ==
    IF obs = <<>> THEN <<>>
    ELSE LET comp == Head(obs)
         IN  << [x |-> comp.x + comp.length, y |-> origY],
                [x |-> comp.x - compLength, y |-> origY],
                [x |-> origX, y |-> comp.y + comp.width],
                [x |-> origX, y |-> comp.y - compWidth],
                [x |-> comp.x + comp.length, y |-> comp.y + comp.width],
                [x |-> comp.x + comp.length, y |-> comp.y - compWidth],
                [x |-> comp.x - compLength, y |-> comp.y + comp.width],
                [x |-> comp.x - compLength, y |-> comp.y - compWidth] >>
             \o ObstacleCandidates(Tail(obs), origX, origY, compLength, compWidth)

\* the candidate list before clamping: per obstacle, then the floor edges
Candidates(cp, floorIndex, origX, origY, compLength, compWidth, fl, fw, exclude) ==
    LET obstacles == SelectSeq(EntriesFrom(cp, 0, exclude),
                               LAMBDA p : p.floor = floorIndex)
    IN  ObstacleCandidates(obstacles, origX, origY, compLength, compWidth)
        \o << [x |-> 0, y |-> origY],
              [x |-> fl - compLength, y |-> origY],
              [x |-> origX, y |-> 0],
              [x |-> origX, y |-> fw - compWidth] >>

\* a clamp that subtracts the size after taking the minimum with the floor
ClampRoundShifted(pos, compLength, compWidth, fl, fw) ==
    [x |-> RoundMeter(Max(0, Min(pos.x, fl) - compLength)),
     y |-> RoundMeter(Max(0, Min(pos.y, fw) - compWidth))]

\* clamp into the floor, then round to the nearest whole meter
ClampRound(pos, compLength, compWidth, fl, fw) ==
    [x |-> RoundMeter(Max(0, Min(pos.x, fl - compLength))),
     y |-> RoundMeter(Max(0, Min(pos.y, fw - compWidth)))]

\* the distance along the x axis only
DistAlongX(pos, origX, origY) ==
    (pos.x - origX) * (pos.x - origX)

Dist2(pos, origX, origY) ==
    (pos.x - origX) * (pos.x - origX) + (pos.y - origY) * (pos.y - origY)

\* findValidPosition: [status |-> "ok" | "null" | "throw", x, y]
findValidPosition(cp, floorIndex, origX, origY, compLength, compWidth, fl, fw, exclude) ==
    LET first == checkOverlap(cp, floorIndex, Q(origX), Q(origY),
                              Q(compLength), Q(compWidth), exclude)
    IN  IF first = "throw" THEN [status |-> "throw", x |-> 0, y |-> 0]
        ELSE IF first = "false" THEN [status |-> "ok", x |-> origX, y |-> origY]
        ELSE IF \E i \in 1..Len(EntriesFrom(cp, 0, exclude)) :
                    IsHole(EntriesFrom(cp, 0, exclude)[i])
             THEN [status |-> "throw", x |-> 0, y |-> 0]
        ELSE
          LET raw == Candidates(cp, floorIndex, origX, origY, compLength, compWidth,
                                fl, fw, exclude)
              mapped == [i \in 1..Len(raw) |->
                            ClampRound(raw[i], compLength, compWidth, fl, fw)]
              valid == SelectSeq(mapped, LAMBDA pos :
                          checkOverlap(cp, floorIndex, Q(pos.x), Q(pos.y),
                                       Q(compLength), Q(compWidth), exclude) = "false")
          IN  IF valid = <<>> THEN [status |-> "null", x |-> 0, y |-> 0]
              ELSE LET best == CHOOSE i \in 1..Len(valid) :
                                 /\ \A j \in 1..Len(valid) :
                                       Dist2(valid[i], origX, origY)
                                         <= Dist2(valid[j], origX, origY)
                                 /\ \A j \in 1..(i - 1) :
                                       Dist2(valid[j], origX, origY)
                                         > Dist2(valid[i], origX, origY)
                   IN  [status |-> "ok", x |-> valid[best].x, y |-> valid[best].y]

\* ------------------------------------------------------------------------
\* Session state
\* ------------------------------------------------------------------------

VARIABLES
    componentPlacements,  \* shipData.componentPlacements
    placementHistory,     \* uiState.placementHistory (undo stack)
    redoHistory,          \* uiState.redoHistory
    isPlacingComponent,   \* uiState.isPlacingComponent
    placementData,        \* uiState.placementData
    selectedPlacement,    \* uiState.selectedPlacement
    resizeState,          \* resizeState of the resize module
    events,               \* number of state-changing events handled so far
    probe,                \* a call of checkOverlap / findValidPosition on its own
    shipData              \* shipData: totalTons, totalCost, components, floorLength

vars == << componentPlacements, placementHistory, redoHistory,
           isPlacingComponent, placementData, selectedPlacement, resizeState,
           events, probe, shipData >>

\* null values: componentIndex = -1
NoPlacementData ==
    [componentIndex |-> -1, length |-> 0, width |-> 0, floors |-> <<>>,
     isMultiFloor |-> FALSE]

NoSelection ==
    [componentIndex |-> -1, floorIndex |-> 0, placementIndex |-> 0,
     length |-> 0, width |-> 0, originalX |-> 0, originalY |-> 0]

\* the whole program state as one record, for the handlers below
State ==
    [cp |-> componentPlacements, hist |-> placementHistory, redo |-> redoHistory,
     placing |-> isPlacingComponent, pd |-> placementData,
     sel |-> selectedPlacement, rs |-> resizeState]

HasSelection(s) == s.sel.componentIndex >= 0

\* for (let i = 1; i <= shipData.numFloors; i++) allFloors.push(i)
AllFloors == [i \in 1..numFloors |-> i]

Includes(seq, e) == \E i \in 1..Len(seq) : seq[i] = e

\* componentPlacements[c].floors.push(p), creating the entry when missing
PushPlacement(cp, c, p) ==
    [cp EXCEPT ![c] = [present |-> TRUE, floors |-> Append(cp[c].floors, p)]]

PlacedCount(cp, c) == IF cp[c].present THEN Len(cp[c].floors) ELSE 0

\* ------------------------------------------------------------------------
\* Placement mode
\* ------------------------------------------------------------------------

\* finishPlacement
finishPlacement(s) == [s EXCEPT !.placing = FALSE, !.pd = NoPlacementData]

\* a cancel that also discards the placements of the component being
\* placed
cancelAndDiscardPlacement(s) ==
    IF ~s.placing THEN s
    ELSE [finishPlacement(s) EXCEPT !.cp[s.pd.componentIndex] = NoEntry]

\* cancelPlacement
cancelPlacement(s) == IF ~s.placing THEN s ELSE finishPlacement(s)

\* startPlacement: the modal's Place button, for component c on the chosen
\* floors with the chosen dimensions
startPlacement(s, c, length, width, floors) ==
    [s EXCEPT !.placing = TRUE,
              !.pd = [componentIndex |-> c, length |-> length, width |-> width,
                      floors |-> floors, isMultiFloor |-> Catalog[c].isMultiFloor]]

\* the position a placement click asks for: centred on the pointer, snapped
\* to the floor edges, clamped and rounded (placeComponentOnCanvas 74-97)
ClickPosition(clickX, clickY, compLength, compWidth) ==
    LET x0 == IF clickX <= compLength THEN 0
              ELSE IF clickX >= floorLength - compLength THEN floorLength - compLength
              ELSE clickX - compLength \div 2
        y0 == IF clickY <= compWidth THEN 0
              ELSE IF clickY >= floorWidth - compWidth THEN floorWidth - compWidth
              ELSE clickY - compWidth \div 2
    IN  [x |-> RoundMeter(Max(0, Min(x0, floorLength - compLength))),
         y |-> RoundMeter(Max(0, Min(y0, floorWidth - compWidth)))]

HistoryEntry(c, f, x, y, length, width) ==
    [componentIndex |-> c, floor |-> f, x |-> x, y |-> y,
     length |-> length, width |-> width]

NewPlacement(f, x, y, length, width) ==
    [floor |-> f, x |-> x, y |-> y, length |-> length, width |-> width]

\* a single-floor placement that always leaves placement mode
placeSingleAndFinish(s, floorIndex, x, y) ==
    LET data == s.pd
        c == data.componentIndex
        cp1 == PushPlacement(s.cp, c, NewPlacement(floorIndex, x, y, data.length, data.width))
    IN  finishPlacement([s EXCEPT !.cp = cp1,
                                  !.hist = Append(s.hist,
                                              HistoryEntry(c, floorIndex, x, y,
                                                           data.length, data.width)),
                                  !.redo = <<>>])

\* placeSingleFloorComponent
placeSingleFloorComponent(s, floorIndex, x, y) ==
    LET data == s.pd
        c == data.componentIndex
        cp1 == PushPlacement(s.cp, c, NewPlacement(floorIndex, x, y, data.length, data.width))
        s1 == [s EXCEPT !.cp = cp1,
                        !.hist = Append(s.hist,
                                    HistoryEntry(c, floorIndex, x, y, data.length, data.width)),
                        !.redo = <<>>]
    IN  IF PlacedCount(cp1, c) < Catalog[c].quantity
        THEN [s1 EXCEPT !.pd.floors = AllFloors]
        ELSE finishPlacement(s1)

RECURSIVE PlaceOnFloors(_, _, _, _, _)
\* the loop of placeMultiFloorComponent (152-169): one placement and one
\* history entry per target floor, all at the same position
PlaceOnFloors(s, floors, x, y, data) ==
    IF floors = <<>> THEN s
    ELSE LET f == Head(floors)
             s1 == [s EXCEPT
                      !.cp = PushPlacement(s.cp, data.componentIndex,
                                NewPlacement(f, x, y, data.length, data.width)),
                      !.hist = Append(s.hist,
                                HistoryEntry(data.componentIndex, f, x, y,
                                             data.length, data.width))]
         IN  PlaceOnFloors(s1, Tail(floors), x, y, data)

\* placeMultiFloorComponent
placeMultiFloorComponent(s, x, y) ==
    LET data == s.pd
        res(f) == findValidPosition(s.cp, f, x, y, data.length, data.width,
                                    floorLength, floorWidth, -1)
        allValid == \A i \in 1..Len(data.floors) : res(data.floors[i]).status = "ok"
    IN  IF ~allValid THEN s
        ELSE finishPlacement([PlaceOnFloors(s, data.floors, x, y, data) EXCEPT !.redo = <<>>])

\* a click handler that leaves placement mode when no position is found
placeOrCancelOnCanvas(s, floorIndex, clickX, clickY) ==
    LET data == s.pd
        want == ClickPosition(clickX, clickY, data.length, data.width)
        position == findValidPosition(s.cp, floorIndex, want.x, want.y,
                                      data.length, data.width,
                                      floorLength, floorWidth, -1)
    IN  IF ~Includes(data.floors, floorIndex) THEN s
        ELSE IF position.status # "ok" THEN cancelPlacement(s)
        ELSE IF data.isMultiFloor THEN placeMultiFloorComponent(s, position.x, position.y)
        ELSE placeSingleFloorComponent(s, floorIndex, position.x, position.y)

\* placeComponentOnCanvas
placeComponentOnCanvas(s, floorIndex, clickX, clickY) ==
    LET data == s.pd
        want == ClickPosition(clickX, clickY, data.length, data.width)
        position == findValidPosition(s.cp, floorIndex, want.x, want.y,
                                      data.length, data.width,
                                      floorLength, floorWidth, -1)
    IN  IF ~Includes(data.floors, floorIndex) THEN s
        ELSE IF position.status # "ok" THEN s
        ELSE IF data.isMultiFloor THEN placeMultiFloorComponent(s, position.x, position.y)
        ELSE placeSingleFloorComponent(s, floorIndex, position.x, position.y)

\* ------------------------------------------------------------------------
\* Undo / redo
\* ------------------------------------------------------------------------

\* a findIndex that compares the floor only
FindIndexByFloor(floors, e) ==
    LET stops == {i \in 1..Len(floors) :
                    IsHole(floors[i]) \/ floors[i].floor = e.floor}
    IN  IF stops = {} THEN 0
        ELSE LET first == CHOOSE i \in stops : \A j \in stops : i <= j
             IN  IF IsHole(floors[first]) THEN -1 ELSE first

\* findIndex(f => f.floor === floor && f.x === x && f.y === y):
\* the index, 0 for none, -1 when an undefined element is read first
FindIndex(floors, e) ==
    LET stops == {i \in 1..Len(floors) :
                    IsHole(floors[i]) \/
                    (floors[i].floor = e.floor /\ floors[i].x = e.x /\ floors[i].y = e.y)}
    IN  IF stops = {} THEN 0
        ELSE LET first == CHOOSE i \in stops : \A j \in stops : i <= j
             IN  IF IsHole(floors[first]) THEN -1 ELSE first

\* undoLastPlacement
undoLastPlacement(s) ==
    IF s.hist = <<>> THEN s
    ELSE
      LET last == s.hist[Len(s.hist)]
          c == last.componentIndex
          s1 == [s EXCEPT !.hist = SubSeq(s.hist, 1, Len(s.hist) - 1),
                          !.redo = Append(s.redo, last)]
          idx == IF s.cp[c].present THEN FindIndex(s.cp[c].floors, last) ELSE 0
          left == RemoveAt(s.cp[c].floors, idx)
          cp1 == IF idx <= 0 THEN s.cp
                 ELSE [s.cp EXCEPT ![c] = IF left = <<>> THEN NoEntry
                                          ELSE [present |-> TRUE, floors |-> left]]
          s2 == [s1 EXCEPT !.cp = cp1]
      IN  IF idx = -1 THEN s1                   \* findIndex threw
          ELSE IF HasHole(cp1) THEN s2          \* drawFloorWithComponents threw
          ELSE [s2 EXCEPT !.placing = TRUE,
                          !.pd = [componentIndex |-> c, length |-> last.length,
                                  width |-> last.width, floors |-> AllFloors,
                                  isMultiFloor |-> FALSE]]

\* redoLastPlacement
redoLastPlacement(s) ==
    IF s.redo = <<>> THEN s
    ELSE
      LET e == s.redo[Len(s.redo)]
      IN  [s EXCEPT !.redo = SubSeq(s.redo, 1, Len(s.redo) - 1),
                    !.cp = PushPlacement(s.cp, e.componentIndex,
                              NewPlacement(e.floor, e.x, e.y, e.length, e.width)),
                    !.hist = Append(s.hist, e)]

\* ------------------------------------------------------------------------
\* Selection, move, rotate, delete
\* ------------------------------------------------------------------------

\* handleComponentSelection: the first placement, in key order, that
\* contains the click; nothing when none does or an undefined element is
\* read first
handleComponentSelection(s, floorIndex, clickX, clickY) ==
    LET Inside(p) == /\ p.floor = floorIndex
                     /\ clickX >= p.x /\ clickX <= p.x + p.length
                     /\ clickY >= p.y /\ clickY <= p.y + p.width
        slots == UNION {{<<c, i>> : i \in 1..Len(s.cp[c].floors)} : c \in Components}
        stops == {ci \in slots :
                    /\ s.cp[ci[1]].present
                    /\ (IsHole(s.cp[ci[1]].floors[ci[2]]) \/ Inside(s.cp[ci[1]].floors[ci[2]]))}
        Before(a, b) == a[1] < b[1] \/ (a[1] = b[1] /\ a[2] <= b[2])
    IN  IF stops = {} THEN s
        ELSE LET first == CHOOSE a \in stops : \A b \in stops : Before(a, b)
                 p == s.cp[first[1]].floors[first[2]]
             IN  IF IsHole(p) THEN s
                 ELSE [s EXCEPT !.sel =
                         [componentIndex |-> first[1], floorIndex |-> floorIndex,
                          placementIndex |-> first[2], length |-> p.length,
                          width |-> p.width, originalX |-> p.x, originalY |-> p.y]]

\* cancelSelection
cancelSelection(s) == [s EXCEPT !.sel = NoSelection]

\* the position a move click asks for: centred, clamped, rounded
MovePosition(clickX, clickY, length, width) ==
    [x |-> RoundMeter(Max(0, Min(clickX - length \div 2, floorLength - length))),
     y |-> RoundMeter(Max(0, Min(clickY - width \div 2, floorWidth - width)))]

\* handleComponentMove
handleComponentMove(s, floorIndex, clickX, clickY) ==
    LET sel == s.sel
        c == sel.componentIndex
        new == MovePosition(clickX, clickY, sel.length, sel.width)
        floors == s.cp[c].floors
        removed == RemoveAt(floors, sel.placementIndex)
        cpRemoved == [s.cp EXCEPT ![c].floors = removed]
        hasOverlap == checkOverlap(cpRemoved, floorIndex, Q(new.x), Q(new.y),
                                   Q(sel.length), Q(sel.width), -1)
        \* floors[placementIndex]: undefined when the index is stale
        oldPlacement == IF sel.placementIndex <= Len(floors)
                        THEN floors[sel.placementIndex] ELSE Hole
    IN  IF ~HasSelection(s) THEN s
        ELSE IF ~s.cp[c].present THEN s              \* placement.floors throws
        ELSE IF hasOverlap = "throw" THEN [s EXCEPT !.cp = cpRemoved]
        ELSE IF hasOverlap = "true"
             THEN [s EXCEPT !.cp[c].floors =
                              InsertAt(removed, sel.placementIndex, oldPlacement)]
        ELSE [s EXCEPT !.cp[c].floors =
                          Append(removed, NewPlacement(floorIndex, new.x, new.y,
                                                       sel.length, sel.width)),
                       !.sel = NoSelection]

\* rotateSelectedComponent
rotateSelectedComponent(s) ==
    LET sel == s.sel
        c == sel.componentIndex
        floors == s.cp[c].floors
        pos == floors[sel.placementIndex]
        newLength == sel.width
        newWidth == sel.length
        x1 == IF pos.x + newLength > floorLength THEN floorLength - newLength ELSE pos.x
        y1 == IF pos.y + newWidth > floorWidth THEN floorWidth - newWidth ELSE pos.y
        newX == Max(0, x1)
        newY == Max(0, y1)
        removed == RemoveAt(floors, sel.placementIndex)
        cpRemoved == [s.cp EXCEPT ![c].floors = removed]
        hasOverlap == checkOverlap(cpRemoved, sel.floorIndex, Q(newX), Q(newY),
                                   Q(newLength), Q(newWidth), -1)
    IN  IF ~HasSelection(s) THEN s
        ELSE IF ~s.cp[c].present THEN s
        ELSE IF sel.placementIndex > Len(floors) \/ IsHole(pos) THEN s
        ELSE IF hasOverlap = "throw" THEN [s EXCEPT !.cp = cpRemoved]
        ELSE IF hasOverlap = "true" THEN s
        ELSE [s EXCEPT !.cp[c].floors =
                          Append(removed, NewPlacement(sel.floorIndex, newX, newY,
                                                       newLength, newWidth)),
                       !.sel = [sel EXCEPT !.length = newLength, !.width = newWidth,
                                           !.originalX = newX, !.originalY = newY,
                                           !.placementIndex = Len(removed) + 1]]

\* a delete that clears the redo stack before it looks at the selection
deleteClearingRedo(s) ==
    LET sel == s.sel
        c == sel.componentIndex
        floors == s.cp[c].floors
        pos == floors[sel.placementIndex]
        left == RemoveAt(floors, sel.placementIndex)
    IN  IF ~HasSelection(s) THEN [s EXCEPT !.redo = <<>>]
        ELSE IF ~s.cp[c].present THEN s
        ELSE IF sel.placementIndex > Len(floors) \/ IsHole(pos) THEN s
        ELSE [s EXCEPT !.hist = Append(s.hist,
                                   HistoryEntry(c, pos.floor, pos.x, pos.y,
                                                sel.length, sel.width)),
                       !.redo = <<>>,
                       !.cp[c] = IF left = <<>> THEN NoEntry
                                 ELSE [present |-> TRUE, floors |-> left],
                       !.sel = NoSelection]

\* deleteSelectedComponent
deleteSelectedComponent(s) ==
    LET sel == s.sel
        c == sel.componentIndex
        floors == s.cp[c].floors
        pos == floors[sel.placementIndex]
        left == RemoveAt(floors, sel.placementIndex)
    IN  IF ~HasSelection(s) THEN s
        ELSE IF ~s.cp[c].present THEN s
        ELSE IF sel.placementIndex > Len(floors) \/ IsHole(pos) THEN s
        ELSE [s EXCEPT !.hist = Append(s.hist,
                                   HistoryEntry(c, pos.floor, pos.x, pos.y,
                                                sel.length, sel.width)),
                       !.redo = <<>>,
                       !.cp[c] = IF left = <<>> THEN NoEntry
                                 ELSE [present |-> TRUE, floors |-> left],
                       !.sel = NoSelection]

\* ------------------------------------------------------------------------
\* Resize
\* ------------------------------------------------------------------------

\* a minimum dimension of half a meter
HalfMeter == Q(U \div 2)

\* const MIN_DIM = 1 (meter), in units
MIN_DIM == Q(U)

\* a transform that returns the dimensions of the final bounds check as
\* they are, without recalculating one from the other
calculateClampedDimensions(edge, deltaMeters, originalLength, originalWidth, componentArea, originalX, originalY, fl, fw) ==
    LET right == QAdd(originalX, originalLength)
        bottom == QAdd(originalY, originalWidth)
        \* the branch of the dragged edge
        branch ==
          CASE edge = "right" ->
                 LET l1 == QMax(MIN_DIM, QMin(QAdd(originalLength, deltaMeters),
                                              QSub(fl, originalX)))
                     w1 == QDiv(componentArea, l1)
                 IN  IF QLt(fw, QAdd(originalY, w1))
                     THEN [length |-> QDiv(componentArea, QSub(fw, originalY)),
                           width |-> QSub(fw, originalY), x |-> originalX, y |-> originalY]
                     ELSE [length |-> l1, width |-> w1, x |-> originalX, y |-> originalY]
            [] edge = "left" ->
                 LET x1 == QMax(Q(0), QMin(QAdd(originalX, deltaMeters),
                                           QSub(right, MIN_DIM)))
                     l1 == QSub(right, x1)
                     w1 == QDiv(componentArea, l1)
                 IN  IF QLt(fw, QAdd(originalY, w1))
                     THEN LET w2 == QSub(fw, originalY)
                              l2 == QDiv(componentArea, w2)
                          IN  [length |-> l2, width |-> w2,
                               x |-> QSub(right, l2), y |-> originalY]
                     ELSE [length |-> l1, width |-> w1, x |-> x1, y |-> originalY]
            [] edge = "bottom" ->
                 LET w1 == QMax(MIN_DIM, QMin(QAdd(originalWidth, deltaMeters),
                                              QSub(fw, originalY)))
                     l1 == QDiv(componentArea, w1)
                 IN  IF QLt(fl, QAdd(originalX, l1))
                     THEN [length |-> QSub(fl, originalX),
                           width |-> QDiv(componentArea, QSub(fl, originalX)),
                           x |-> originalX, y |-> originalY]
                     ELSE [length |-> l1, width |-> w1, x |-> originalX, y |-> originalY]
            [] edge = "top" ->
                 LET y1 == QMax(Q(0), QMin(QAdd(originalY, deltaMeters),
                                           QSub(bottom, MIN_DIM)))
                     w1 == QSub(bottom, y1)
                     l1 == QDiv(componentArea, w1)
                 IN  IF QLt(fl, QAdd(originalX, l1))
                     THEN LET l2 == QSub(fl, originalX)
                              w2 == QDiv(componentArea, l2)
                          IN  [length |-> l2, width |-> w2,
                               x |-> originalX, y |-> QSub(bottom, w2)]
                     ELSE [length |-> l1, width |-> w1, x |-> originalX, y |-> y1]
            [] OTHER ->
                 [length |-> originalLength, width |-> originalWidth,
                  x |-> originalX, y |-> originalY]
        \* final bounds check
        newLength == QMax(MIN_DIM, QMin(branch.length, QSub(fl, branch.x)))
        newWidth == QMax(MIN_DIM, QMin(branch.width, QSub(fw, branch.y)))
    IN  [length |-> newLength, width |-> newWidth, x |-> branch.x, y |-> branch.y]

\* calculateNewDimensions, on fractions; area is componentArea
calculateNewDimensions(edge, deltaMeters, originalLength, originalWidth, componentArea, originalX, originalY, fl, fw) ==
    LET right == QAdd(originalX, originalLength)
        bottom == QAdd(originalY, originalWidth)
        \* the branch of the dragged edge
        branch ==
          CASE edge = "right" ->
                 LET l1 == QMax(MIN_DIM, QMin(QAdd(originalLength, deltaMeters),
                                              QSub(fl, originalX)))
                     w1 == QDiv(componentArea, l1)
                 IN  IF QLt(fw, QAdd(originalY, w1))
                     THEN [length |-> QDiv(componentArea, QSub(fw, originalY)),
                           width |-> QSub(fw, originalY), x |-> originalX, y |-> originalY]
                     ELSE [length |-> l1, width |-> w1, x |-> originalX, y |-> originalY]
            [] edge = "left" ->
                 LET x1 == QMax(Q(0), QMin(QAdd(originalX, deltaMeters),
                                           QSub(right, MIN_DIM)))
                     l1 == QSub(right, x1)
                     w1 == QDiv(componentArea, l1)
                 IN  IF QLt(fw, QAdd(originalY, w1))
                     THEN LET w2 == QSub(fw, originalY)
                              l2 == QDiv(componentArea, w2)
                          IN  [length |-> l2, width |-> w2,
                               x |-> QSub(right, l2), y |-> originalY]
                     ELSE [length |-> l1, width |-> w1, x |-> x1, y |-> originalY]
            [] edge = "bottom" ->
                 LET w1 == QMax(MIN_DIM, QMin(QAdd(originalWidth, deltaMeters),
                                              QSub(fw, originalY)))
                     l1 == QDiv(componentArea, w1)
                 IN  IF QLt(fl, QAdd(originalX, l1))
                     THEN [length |-> QSub(fl, originalX),
                           width |-> QDiv(componentArea, QSub(fl, originalX)),
                           x |-> originalX, y |-> originalY]
                     ELSE [length |-> l1, width |-> w1, x |-> originalX, y |-> originalY]
            [] edge = "top" ->
                 LET y1 == QMax(Q(0), QMin(QAdd(originalY, deltaMeters),
                                           QSub(bottom, MIN_DIM)))
                     w1 == QSub(bottom, y1)
                     l1 == QDiv(componentArea, w1)
                 IN  IF QLt(fl, QAdd(originalX, l1))
                     THEN LET l2 == QSub(fl, originalX)
                              w2 == QDiv(componentArea, l2)
                          IN  [length |-> l2, width |-> w2,
                               x |-> originalX, y |-> QSub(bottom, w2)]
                     ELSE [length |-> l1, width |-> w1, x |-> originalX, y |-> y1]
            [] OTHER ->
                 [length |-> originalLength, width |-> originalWidth,
                  x |-> originalX, y |-> originalY]
        \* final bounds check
        newLength == QMax(MIN_DIM, QMin(branch.length, QSub(fl, branch.x)))
        newWidth == QMax(MIN_DIM, QMin(branch.width, QSub(fw, branch.y)))
    IN  \* recalculate to maintain exact area
        IF edge = "left" \/ edge = "right"
        THEN [length |-> newLength, width |-> QDiv(componentArea, newLength),
              x |-> branch.x, y |-> branch.y]
        ELSE [length |-> QDiv(componentArea, newWidth), width |-> newWidth,
              x |-> branch.x, y |-> branch.y]

NoResize ==
    [isResizing |-> FALSE, edge |-> "none", componentIndex |-> -1,
     placementIndex |-> 0, floorIndex |-> 0,
     originalX |-> 0, originalY |-> 0, originalLength |-> 0, originalWidth |-> 0,
     componentArea |-> 0,
     currentX |-> Q(0), currentY |-> Q(0), currentLength |-> Q(0), currentWidth |-> Q(0)]

\* resetResizeState
resetResizeState(s) == [s EXCEPT !.rs = NoResize]

\* cancelResize; drawFloorWithComponents throws on an undefined element,
\* before resetResizeState
cancelResize(s) ==
    IF ~s.rs.isResizing THEN s
    ELSE IF HasHole(s.cp) THEN s
    ELSE resetResizeState(s)

\* startResize
startResize(s, edge, componentIndex, placementIndex, floorIndex) ==
    LET floors == s.cp[componentIndex].floors
        pos == floors[placementIndex]
    IN  IF ~s.cp[componentIndex].present \/ placementIndex > Len(floors) THEN s
        ELSE IF IsHole(pos) THEN s
        ELSE [s EXCEPT !.rs =
                [isResizing |-> TRUE, edge |-> edge, componentIndex |-> componentIndex,
                 placementIndex |-> placementIndex, floorIndex |-> floorIndex,
                 originalX |-> pos.x, originalY |-> pos.y,
                 originalLength |-> pos.length, originalWidth |-> pos.width,
                 componentArea |-> pos.length * pos.width,
                 currentX |-> Q(pos.x), currentY |-> Q(pos.y),
                 currentLength |-> Q(pos.length), currentWidth |-> Q(pos.width)]]

\* handleResizeMouseDown: pointer-down near `edge` of the selected placement
handleResizeMouseDown(s, floorIndex, edge) ==
    LET sel == s.sel
    IN  IF ~HasSelection(s) \/ sel.floorIndex # floorIndex \/ s.rs.isResizing THEN s
        ELSE startResize(s, edge, sel.componentIndex, sel.placementIndex, floorIndex)

\* updateResize: the pointer is deltaMeters (units) from where the drag began
updateResize(s, deltaMeters) ==
    LET rs == s.rs
        newDims == calculateNewDimensions(rs.edge, Q(deltaMeters),
                       Q(rs.originalLength), Q(rs.originalWidth), Q(rs.componentArea),
                       Q(rs.originalX), Q(rs.originalY), Q(floorLength), Q(floorWidth))
    IN  IF ~rs.isResizing THEN s
        ELSE [s EXCEPT !.rs.currentLength = newDims.length,
                       !.rs.currentWidth = newDims.width,
                       !.rs.currentX = newDims.x,
                       !.rs.currentY = newDims.y]

\* handleResizeMouseMove (the branch that updates a running resize)
handleResizeMouseMove(s, floorIndex, deltaMeters) ==
    IF ~HasSelection(s) \/ s.sel.floorIndex # floorIndex THEN s
    ELSE updateResize(s, deltaMeters)

\* commitResize
commitResize(s) ==
    LET rs == s.rs
        c == rs.componentIndex
        hasOverlap == checkOverlap(s.cp, rs.floorIndex, rs.currentX, rs.currentY,
                                   rs.currentLength, rs.currentWidth, c)
        exists == /\ s.cp[c].present
                  /\ rs.placementIndex <= Len(s.cp[c].floors)
                  /\ ~IsHole(s.cp[c].floors[rs.placementIndex])
        pos == [floor |-> s.cp[c].floors[rs.placementIndex].floor,
                x |-> RoundTenth(rs.currentX), y |-> RoundTenth(rs.currentY),
                length |-> RoundTenth(rs.currentLength),
                width |-> RoundTenth(rs.currentWidth)]
        selected == HasSelection(s) /\ s.sel.componentIndex = c
                                    /\ s.sel.placementIndex = rs.placementIndex
        applied == IF ~exists THEN s
                   ELSE [s EXCEPT !.cp[c].floors[rs.placementIndex] = pos,
                                  !.sel = IF selected
                                          THEN [s.sel EXCEPT !.length = pos.length,
                                                             !.width = pos.width,
                                                             !.originalX = pos.x,
                                                             !.originalY = pos.y]
                                          ELSE s.sel]
    IN  IF ~rs.isResizing THEN s
        ELSE IF hasOverlap = "throw" THEN s
        ELSE IF hasOverlap = "true" THEN cancelResize(s)
        \* drawFloorWithComponents, or the highlight's read of the selected
        \* placement, throws before resetResizeState
        ELSE IF HasHole(applied.cp) \/ (selected /\ ~exists) THEN applied
        ELSE resetResizeState(applied)

\* handleResizeMouseUp
handleResizeMouseUp(s) == IF s.rs.isResizing THEN commitResize(s) ELSE s

\* ------------------------------------------------------------------------
\* Event routing
\* ------------------------------------------------------------------------

\* handleCanvasPlacement: a click on the canvas of floorIndex
handleCanvasPlacement(s, floorIndex, clickX, clickY) ==
    IF s.rs.isResizing THEN s
    ELSE IF HasSelection(s) THEN handleComponentMove(s, floorIndex, clickX, clickY)
    ELSE IF ~s.placing THEN handleComponentSelection(s, floorIndex, clickX, clickY)
    ELSE placeComponentOnCanvas(s, floorIndex, clickX, clickY)

\* the two keydown listeners on Escape (setupComponentModalEvents and
\* setupGlobalResizeHandlers)
escapeKey(s) ==
    LET s1 == IF HasSelection(s) THEN cancelSelection(s)
              ELSE IF s.placing THEN cancelPlacement(s)
              ELSE s
    IN  cancelResize(s1)

\* ------------------------------------------------------------------------
\* Drag preview
\* ------------------------------------------------------------------------

NoPreview ==
    [isActive |-> FALSE, floorIndex |-> 0, x |-> 0, y |-> 0, length |-> 0, width |-> 0,
     excludeComponentIndex |-> -1]

\* handleCanvasMouseMove: the previewState a pointer at (mouseX, mouseY) of
\* floorIndex leaves
handleCanvasMouseMove(s, floorIndex, mouseX, mouseY) ==
    LET At2(compLength, compWidth, excludeIndex) ==
          [isActive |-> TRUE, floorIndex |-> floorIndex,
           x |-> RoundMeter(Max(0, Min(mouseX - compLength \div 2,
                                       floorLength - compLength))),
           y |-> RoundMeter(Max(0, Min(mouseY - compWidth \div 2,
                                       floorWidth - compWidth))),
           length |-> compLength, width |-> compWidth,
           excludeComponentIndex |-> excludeIndex]
    IN  IF ~s.placing /\ ~HasSelection(s) THEN NoPreview
        ELSE IF s.placing
             THEN IF ~Includes(s.pd.floors, floorIndex) THEN NoPreview
                  ELSE At2(s.pd.length, s.pd.width, -1)
        ELSE At2(s.sel.length, s.sel.width, s.sel.componentIndex)

\* the animation frame after a pointer move: drawFloorWithComponents, then
\* drawPreview, which colours the rectangle by checkOverlap; "none" when
\* nothing is drawn, "throw" when an undefined element is read
drawPreview(s, preview) ==
    LET hasOverlap == checkOverlap(s.cp, preview.floorIndex, Q(preview.x), Q(preview.y),
                                   Q(preview.length), Q(preview.width),
                                   preview.excludeComponentIndex)
    IN  IF ~preview.isActive THEN "none"
        ELSE IF HasHole(s.cp) \/ hasOverlap = "throw" THEN "throw"
        ELSE IF hasOverlap = "true" THEN "invalid"
        ELSE "valid"

\* ------------------------------------------------------------------------
\* Ship data and its loading
\* ------------------------------------------------------------------------

\* tonnage is counted in tenths of a ton
T == 10

\* the ship of the sessions: 5 tons on two floors under a 2.8 m ceiling,
\* which gives floors of 12.5 square meters
ConfiguredShip ==
    [totalTons |-> 5 * T, totalCost |-> 0,
     components |-> << [item |-> 1, tons |-> 8], [item |-> 2, tons |-> 25] >>,
     floorLength |-> floorLength]

\* calculateDefaultFloorLength of the floor area that totalTons gives with
\* SQM_PER_TON = 14, two floors and the 2.8 m ceiling (2.5 square meters
\* per ton and floor): the multiple of 10 m below the square root, at
\* least 5 m
calculateDefaultFloorLength(totalTons) ==
    LET k == CHOOSE j \in 0..(Max(0, totalTons) + 1) :
                 /\ 40 * T * j * j <= Max(0, totalTons)
                 /\ Max(0, totalTons) < 40 * T * (j + 1) * (j + 1)
    IN  IF 10 * k < 5 THEN 5 * U ELSE 10 * k * U

\* a load that keeps every parsed component
loadUnfiltered(ship, cp, parsed) ==
    IF parsed.components = <<>> THEN [status |-> "error", ship |-> ship, cp |-> cp]
    ELSE [status |-> "loaded",
          ship |-> [totalTons |-> parsed.totalTons, totalCost |-> parsed.totalCost,
                    components |-> parsed.components,
                    floorLength |-> calculateDefaultFloorLength(parsed.totalTons)],
          cp |-> EmptyStore]

\* loadCsvFromString on the result of parseCSV: [status, ship, cp], status
\* "error" when it throws
loadCsvFromString(ship, cp, parsed) ==
    LET filteredComponents ==
            SelectSeq(parsed.components,
                      LAMBDA component : ~(component.tons = 0 \/ component.tons <= 0))
    IN  IF parsed.components = <<>> THEN [status |-> "error", ship |-> ship, cp |-> cp]
        ELSE IF filteredComponents = <<>>
             THEN [status |-> "error", ship |-> ship, cp |-> cp]
        ELSE [status |-> "loaded",
              ship |-> [totalTons |-> parsed.totalTons, totalCost |-> parsed.totalCost,
                        components |-> filteredComponents,
                        floorLength |-> calculateDefaultFloorLength(parsed.totalTons)],
              cp |-> EmptyStore]

\* the file the configured ship was loaded from, as parseCSV returns it
ConfiguredFile ==
    [components |-> ConfiguredShip.components,
     totalTons |-> ConfiguredShip.totalTons, totalCost |-> ConfiguredShip.totalCost]

\* the values typed into the floor length field: one below the minimum of
\* 5 m, and the length in force (the field is retyped, so the floors keep
\* their size)
FloorLengthInputs == {4 * U, floorLength}

\* the 'input' listener of the floor length field; the listeners of the
\* floor slider, the ceiling height and the dimension dropdown clear the
\* placements in the same way
floorLengthInput(s, value) ==
    IF value >= 5 * U THEN [s EXCEPT !.cp = EmptyStore] ELSE s

\* ------------------------------------------------------------------------
\* The state machine
\* ------------------------------------------------------------------------

\* no call under examination
NoProbe ==
    [cp |-> EmptyStore, floorIndex |-> 0, x |-> 0, y |-> 0, length |-> 0, width |-> 0,
     fl |-> 0, fw |-> 0, exclude |-> -1,
     overlap |-> "uncalled", position |-> [status |-> "uncalled", x |-> 0, y |-> 0]]

Init ==
    /\ componentPlacements = EmptyStore
    /\ placementHistory = <<>>
    /\ redoHistory = <<>>
    /\ isPlacingComponent = FALSE
    /\ placementData = NoPlacementData
    /\ selectedPlacement = NoSelection
    /\ resizeState = NoResize
    /\ events = 0
    /\ shipData = ConfiguredShip
    /\ probe = NoProbe

\* an event whose handler changes the state, while the session is within
\* its bound
Becomes(r) ==
    /\ events < MaxEvents
    /\ r # State
    /\ componentPlacements' = r.cp
    /\ placementHistory' = r.hist
    /\ redoHistory' = r.redo
    /\ isPlacingComponent' = r.placing
    /\ placementData' = r.pd
    /\ selectedPlacement' = r.sel
    /\ resizeState' = r.rs
    /\ events' = events + 1
    /\ probe' = probe
    /\ shipData' = shipData

\* the component list's click handler exists only while the component is
\* not fully placed (renderComponents); the modal's Place button follows
StartPlacement ==
    \E c \in Components :
        /\ PlacedCount(componentPlacements, c) < Catalog[c].quantity
        /\ \/ /\ Catalog[c].isMultiFloor
              /\ Becomes(startPlacement(State, c, Catalog[c].length,
                                        Catalog[c].width, AllFloors))
           \/ /\ ~Catalog[c].isMultiFloor
              /\ \E f \in Floors :
                    Becomes(startPlacement(State, c, Catalog[c].length,
                                           Catalog[c].width, <<f>>))

\* a click on a floor canvas
CanvasClick ==
    /\ ~resizeState.isResizing
    /\ \E f \in Floors, cx \in ClickXs, cy \in ClickYs :
          Becomes(handleCanvasPlacement(State, f, cx, cy))

\* Ctrl+Z
UndoKey ==
    /\ placementHistory # <<>>
    /\ Becomes(undoLastPlacement(State))

\* Ctrl+Y
RedoKey ==
    /\ redoHistory # <<>>
    /\ Becomes(redoLastPlacement(State))

\* Escape
EscapeKey ==
    /\ isPlacingComponent \/ HasSelection(State) \/ resizeState.isResizing
    /\ Becomes(escapeKey(State))

\* Delete
DeleteKey ==
    /\ HasSelection(State)
    /\ Becomes(deleteSelectedComponent(State))

\* R
RotateKey ==
    /\ HasSelection(State)
    /\ Becomes(rotateSelectedComponent(State))

\* mouse down on an edge of the selected placement
ResizeMouseDown ==
    /\ HasSelection(State)
    /\ \E f \in Floors, edge \in Edges :
          Becomes(handleResizeMouseDown(State, f, edge))

\* the fractions of the model are finite: a drag whose transform divides
\* by zero (an infinite length in the program) is left out
IsFinite(rs) ==
    /\ rs.currentX[2] # 0 /\ rs.currentY[2] # 0
    /\ rs.currentLength[2] # 0 /\ rs.currentWidth[2] # 0

\* mouse move during a resize drag
ResizeMouseMove ==
    /\ resizeState.isResizing
    /\ \E f \in Floors, d \in Deltas :
          /\ IsFinite(handleResizeMouseMove(State, f, d).rs)
          /\ Becomes(handleResizeMouseMove(State, f, d))

\* mouse up
ResizeMouseUp ==
    /\ resizeState.isResizing
    /\ Becomes(handleResizeMouseUp(State))

Next ==
    \/ StartPlacement
    \/ CanvasClick
    \/ UndoKey
    \/ RedoKey
    \/ EscapeKey
    \/ DeleteKey
    \/ RotateKey
    \/ ResizeMouseDown
    \/ ResizeMouseMove
    \/ ResizeMouseUp

Spec == Init /\ [][Next]_vars

\* the sessions in which nothing is rotated or resized
PlacementNext ==
    \/ StartPlacement
    \/ CanvasClick
    \/ UndoKey
    \/ RedoKey
    \/ EscapeKey
    \/ DeleteKey

PlacementSpec == Init /\ [][PlacementNext]_vars

\* the floor length field receives a value
FloorLengthInput ==
    /\ componentPlacements # EmptyStore
    /\ \E value \in FloorLengthInputs : Becomes(floorLengthInput(State, value))

\* the file of the configured ship is loaded again
ReloadCsv ==
    LET r == loadCsvFromString(shipData, componentPlacements, ConfiguredFile)
    IN  /\ r.status = "loaded"
        /\ r.ship = shipData
        /\ Becomes([State EXCEPT !.cp = r.cp])

\* the sessions with floor configuration and reloads
SessionNext ==
    \/ Next
    \/ FloorLengthInput
    \/ ReloadCsv

SessionSpec == Init /\ [][SessionNext]_vars

\* ------------------------------------------------------------------------
\* checkOverlap and findValidPosition called on their own: the arguments
\* and the store are drawn from the sets below, the calls record what the
\* functions return
\* ------------------------------------------------------------------------

\* floor sizes <<floorLength, floorWidth>>, rectangle sizes <<length, width>>
\* and coordinates
QueryFloors == {<<5 * U, 5 * U>>, <<10 * U, 10 * U>>, <<5 * U, (5 * U) \div 2>>}
StoredSizes == {<<2 * U, U>>, <<5 * U, 5 * U>>, <<(5 * U) \div 2, (5 * U) \div 2>>}
QuerySizes == StoredSizes \cup {<<U, U>>}
StoredXs == {0, 2 * U, 5 * U}
StoredYs == {0, 5 * U}
QueryXs == {0, 2 * U, 5 * U}
QueryYs == {0, U}

\* the placements a component may have in the store of a query: none
\* (Hole), or one placement
StoredPlacements(floors) ==
    {Hole} \cup {NewPlacement(f, x, y, sz[1], sz[2]) :
                    f \in floors, x \in StoredXs, y \in StoredYs, sz \in StoredSizes}

\* the store with placement a of component 0 and b of component 1
StoreOf(a, b) ==
    [c \in Components |->
        LET p == IF c = 0 THEN a ELSE b
        IN  IF IsHole(p) THEN NoEntry ELSE [present |-> TRUE, floors |-> <<p>>]]

\* stores as the placement handlers leave them on floors of the given
\* size: placements inside the floor, no two overlapping
QueryStores(fl, fw) ==
    LET Fits(p) == IsHole(p) \/ (p.x + p.length <= fl /\ p.y + p.width <= fw)
        Apart(a, b) ==
            \/ IsHole(a) \/ IsHole(b) \/ a.floor # b.floor
            \/ a.x + a.length <= b.x \/ b.x + b.length <= a.x
            \/ a.y + a.width <= b.y \/ b.y + b.width <= a.y
    IN  {StoreOf(ab[1], ab[2]) :
            ab \in {cd \in StoredPlacements({1}) \X StoredPlacements(Floors) :
                        Fits(cd[1]) /\ Fits(cd[2]) /\ Apart(cd[1], cd[2])}}

\* the calls examined: floor 1 of a ship with floors of size d
QueryProbes(d) ==
    {[cp |-> cp, floorIndex |-> 1, x |-> x, y |-> y,
      length |-> sz[1], width |-> sz[2], fl |-> d[1], fw |-> d[2],
      exclude |-> exclude, overlap |-> "uncalled",
      position |-> [status |-> "uncalled", x |-> 0, y |-> 0]] :
        cp \in QueryStores(d[1], d[2]),
        x \in QueryXs, y \in QueryYs, sz \in QuerySizes, exclude \in {-1, 0}}

Probes == UNION {QueryProbes(d) : d \in QueryFloors}

ResolverInit ==
    /\ componentPlacements = EmptyStore
    /\ placementHistory = <<>>
    /\ redoHistory = <<>>
    /\ isPlacingComponent = FALSE
    /\ placementData = NoPlacementData
    /\ selectedPlacement = NoSelection
    /\ resizeState = NoResize
    /\ events = 0
    /\ shipData = ConfiguredShip
    /\ probe \in Probes

\* checkOverlap(floorIndex, x, y, length, width, exclude) on the store
CallCheckOverlap ==
    /\ probe.overlap = "uncalled"
    /\ probe' = [probe EXCEPT !.overlap =
                    checkOverlap(probe.cp, probe.floorIndex, Q(probe.x), Q(probe.y),
                                 Q(probe.length), Q(probe.width), probe.exclude)]
    /\ UNCHANGED << componentPlacements, placementHistory, redoHistory,
                    isPlacingComponent, placementData, selectedPlacement,
                    resizeState, events, shipData >>

\* findValidPosition(floorIndex, x, y, length, width, fl, fw, exclude)
CallFindValidPosition ==
    /\ probe.position.status = "uncalled"
    /\ probe' = [probe EXCEPT !.position =
                    findValidPosition(probe.cp, probe.floorIndex, probe.x, probe.y,
                                      probe.length, probe.width, probe.fl, probe.fw,
                                      probe.exclude)]
    /\ UNCHANGED << componentPlacements, placementHistory, redoHistory,
                    isPlacingComponent, placementData, selectedPlacement,
                    resizeState, events, shipData >>

ResolverNext ==
    \/ CallCheckOverlap
    \/ CallFindValidPosition

ResolverSpec == ResolverInit /\ [][ResolverNext]_vars

\* ------------------------------------------------------------------------
\* findValidPosition called twice with the same arguments: `probe` holds
\* the call, the store as it was before the first call, and both results
\* ------------------------------------------------------------------------

Uncalled == [status |-> "uncalled", x |-> 0, y |-> 0]

RepeatInit ==
    /\ componentPlacements = EmptyStore
    /\ placementHistory = <<>>
    /\ redoHistory = <<>>
    /\ isPlacingComponent = FALSE
    /\ placementData = NoPlacementData
    /\ selectedPlacement = NoSelection
    /\ resizeState = NoResize
    /\ events = 0
    /\ shipData = ConfiguredShip
    /\ probe \in {[call |-> q, before |-> q.cp, first |-> Uncalled, second |-> Uncalled] :
                     q \in Probes}

\* what findValidPosition returns for the call, on the store as it is now
Resolved(q) ==
    findValidPosition(q.cp, q.floorIndex, q.x, q.y, q.length, q.width, q.fl, q.fw, q.exclude)

\* a resolver that reserves the position it returns by storing it
FirstCallReserving ==
    /\ probe.first = Uncalled
    /\ probe' = [probe EXCEPT
                    !.first = Resolved(probe.call),
                    !.call.cp = IF Resolved(probe.call).status = "ok"
                                THEN PushPlacement(@, 0,
                                        NewPlacement(probe.call.floorIndex,
                                                     Resolved(probe.call).x,
                                                     Resolved(probe.call).y,
                                                     probe.call.length, probe.call.width))
                                ELSE @]
    /\ UNCHANGED << componentPlacements, placementHistory, redoHistory,
                    isPlacingComponent, placementData, selectedPlacement,
                    resizeState, events, shipData >>

\* the first call: findValidPosition reads the store and writes nothing
FirstCall ==
    /\ probe.first = Uncalled
    /\ probe' = [probe EXCEPT !.first = Resolved(probe.call)]
    /\ UNCHANGED << componentPlacements, placementHistory, redoHistory,
                    isPlacingComponent, placementData, selectedPlacement,
                    resizeState, events, shipData >>

\* the second call, with the same arguments, on the store the first left
SecondCall ==
    /\ probe.first # Uncalled
    /\ probe.second = Uncalled
    /\ probe' = [probe EXCEPT !.second = Resolved(probe.call)]
    /\ UNCHANGED << componentPlacements, placementHistory, redoHistory,
                    isPlacingComponent, placementData, selectedPlacement,
                    resizeState, events, shipData >>

RepeatNext ==
    \/ FirstCall
    \/ SecondCall

RepeatSpec == RepeatInit /\ [][RepeatNext]_vars

\* ------------------------------------------------------------------------
\* Loading component data: the files are the results of parseCSV
\* ------------------------------------------------------------------------

\* tons of a parsed row: negative, zero (also what an unreadable number
\* becomes), or positive
ParsedTons == {-T, 0, 8, 25}
ParsedTotals == {0, 5 * T, 50 * T, 200 * T, 1000 * T}
MaxRows == 3

\* what parseCSV returns: the rows in file order, and the totals
ParsedFiles ==
    UNION {{[components |-> [i \in 1..n |-> [item |-> i, tons |-> ts[i]]],
             totalTons |-> tt, totalCost |-> 0] :
               ts \in [1..n -> ParsedTons], tt \in ParsedTotals} : n \in 0..MaxRows}

LoadInit ==
    /\ componentPlacements \in
          {EmptyStore, StoreOf(NewPlacement(1, 0, 0, 2 * U, U), Hole)}
    /\ placementHistory = <<>>
    /\ redoHistory = <<>>
    /\ isPlacingComponent = FALSE
    /\ placementData = NoPlacementData
    /\ selectedPlacement = NoSelection
    /\ resizeState = NoResize
    /\ events = 0
    /\ probe = NoProbe
    /\ shipData = ConfiguredShip

\* a file is chosen (or found in the URL) and loads
LoadCsv ==
    \E parsed \in ParsedFiles :
        LET r == loadCsvFromString(shipData, componentPlacements, parsed)
        IN  /\ r.status = "loaded"
            /\ shipData' = r.ship
            /\ componentPlacements' = r.cp
            /\ UNCHANGED << placementHistory, redoHistory, isPlacingComponent,
                            placementData, selectedPlacement, resizeState,
                            events, probe >>

LoadSpec == LoadInit /\ [][LoadCsv]_vars

\* ------------------------------------------------------------------------
\* The resize transform on its own: one call of calculateNewDimensions
\* ------------------------------------------------------------------------

\* floors <<floorLength, floorWidth>>: the floor of the sessions and a
\* 100 m x 100 m floor
ResizeFloors == {<<floorLength, floorWidth>>, <<100 * U, 100 * U>>}

\* the rectangle being resized (updateResize passes resizeState.original*)
ResizeLengths == {U \div 2, U, 2 * U, 4 * U}
ResizeWidths == {U \div 2, U, 2 * U, 5 * U}
ResizeXs == {0, U, (9 * U) \div 2}
ResizeYs == {0, U \div 2, 2 * U}

\* pointer displacements (units) since the drag began
ResizeDeltas == {-3 * U, -U, -(U \div 2), U, 6 * U}

Uncomputed == [length |-> Q(0), width |-> Q(0), x |-> Q(0), y |-> Q(0)]

\* the calls: every edge and delta, on every rectangle inside its floor;
\* componentArea is originalLength * originalWidth (startResize)
ResizeCalls ==
    LET fits == {r \in ResizeLengths \X ResizeWidths \X ResizeXs \X ResizeYs \X ResizeFloors :
                    r[3] + r[1] <= r[5][1] /\ r[4] + r[2] <= r[5][2]}
    IN  {[edge |-> e, delta |-> d, originalLength |-> r[1], originalWidth |-> r[2],
          componentArea |-> r[1] * r[2], originalX |-> r[3], originalY |-> r[4],
          fl |-> r[5][1], fw |-> r[5][2], result |-> Uncomputed] :
            e \in Edges, d \in ResizeDeltas, r \in fits}

ResizeInit ==
    /\ componentPlacements = EmptyStore
    /\ placementHistory = <<>>
    /\ redoHistory = <<>>
    /\ isPlacingComponent = FALSE
    /\ placementData = NoPlacementData
    /\ selectedPlacement = NoSelection
    /\ resizeState = NoResize
    /\ events = 0
    /\ shipData = ConfiguredShip
    /\ probe \in ResizeCalls

\* calculateNewDimensions(edge, deltaMeters, originalLength, ...)
CallCalculateNewDimensions ==
    /\ probe.result = Uncomputed
    /\ probe' = [probe EXCEPT !.result =
                    calculateNewDimensions(probe.edge, Q(probe.delta),
                        Q(probe.originalLength), Q(probe.originalWidth),
                        Q(probe.componentArea), Q(probe.originalX), Q(probe.originalY),
                        Q(probe.fl), Q(probe.fw))]
    /\ UNCHANGED << componentPlacements, placementHistory, redoHistory,
                    isPlacingComponent, placementData, selectedPlacement,
                    resizeState, events, shipData >>

ResizeSpec == ResizeInit /\ [][CallCalculateNewDimensions]_vars

\* ------------------------------------------------------------------------
\* Vocabulary of the properties
\* ------------------------------------------------------------------------

\* the stored placements as <<componentIndex, position in floors>>
Slots(cp) ==
    UNION {{<<c, i>> : i \in {j \in 1..Len(cp[c].floors) : ~IsHole(cp[c].floors[j])}} :
              c \in {d \in Components : cp[d].present}}

At(cp, ci) == cp[ci[1]].floors[ci[2]]

\* the store as a set of <<componentIndex, placement>>
PlacementSet(cp) == {<<ci[1], At(cp, ci)>> : ci \in Slots(cp)}

\* the interiors of two rectangles (units) intersect
Intersects(x, y, length, width, p) ==
    /\ x < p.x + p.length /\ p.x < x + length
    /\ y < p.y + p.width /\ p.y < y + width

\* the rectangle lies inside the floor
InsideFloor(x, y, length, width) ==
    /\ 0 <= x /\ 0 <= y
    /\ x + length <= floorLength
    /\ y + width <= floorWidth

\* the rectangle meets a stored placement of floor f, other than those of
\* component `exclude`
Blocked(cp, f, x, y, length, width, exclude) ==
    \E ci \in Slots(cp) :
        /\ ci[1] # exclude
        /\ At(cp, ci).floor = f
        /\ Intersects(x, y, length, width, At(cp, ci))

\* ------------------------------------------------------------------------
\* Properties
\* ------------------------------------------------------------------------

\* C1: no two distinct stored placements on the same floor overlap (their
\* interiors intersect), two placements of the same component included.
NoOverlap ==
    \A a \in Slots(componentPlacements), b \in Slots(componentPlacements) :
        (a # b /\ At(componentPlacements, a).floor = At(componentPlacements, b).floor)
        => LET p == At(componentPlacements, a)
           IN  ~Intersects(p.x, p.y, p.length, p.width, At(componentPlacements, b))

\* C2: every stored placement lies inside its floor: 0 <= x, 0 <= y,
\* x + length <= floorLength and y + width <= floorWidth.
PlacementsInsideFloor ==
    \A a \in Slots(componentPlacements) :
        LET p == At(componentPlacements, a)
        IN  InsideFloor(p.x, p.y, p.length, p.width)

\* C3: a multi-floor placement click that resolves to (x, y) places nothing
\* and leaves the undo stack alone when the rectangle at (x, y) overlaps a
\* placement on some target floor, and otherwise places on every target
\* floor.
MultiFloorAtomic ==
    \A f \in Floors, cx \in ClickXs, cy \in ClickYs :
        LET data == placementData
            want == ClickPosition(cx, cy, data.length, data.width)
            position == findValidPosition(componentPlacements, f, want.x, want.y,
                            data.length, data.width, floorLength, floorWidth, -1)
            r == placeComponentOnCanvas(State, f, cx, cy)
            targets == {data.floors[i] : i \in 1..Len(data.floors)}
            Received(g) ==
                \E ci \in Slots(r.cp) \ Slots(componentPlacements) :
                    /\ ci[1] = data.componentIndex
                    /\ At(r.cp, ci) = NewPlacement(g, position.x, position.y,
                                                   data.length, data.width)
        IN  (/\ isPlacingComponent /\ data.isMultiFloor
             /\ f \in targets /\ position.status = "ok")
            => IF \E g \in targets :
                     Blocked(componentPlacements, g, position.x, position.y,
                             data.length, data.width, -1)
               THEN r.cp = componentPlacements /\ r.hist = placementHistory
               ELSE \A g \in targets : Received(g)

\* a click of placement mode that places a single-floor component
PlacesSingle(f, cx, cy) ==
    /\ isPlacingComponent /\ ~placementData.isMultiFloor
    /\ placeComponentOnCanvas(State, f, cx, cy).cp # componentPlacements

\* C4: a successful single-floor placement followed by Undo leaves the same
\* set of placements as before the placement, and a Redo right after that
\* leaves the store as it was right after the placement.
UndoRedoRoundTrip ==
    \A f \in Floors, cx \in ClickXs, cy \in ClickYs :
        LET placed == placeComponentOnCanvas(State, f, cx, cy)
            undone == undoLastPlacement(placed)
            redone == redoLastPlacement(undone)
        IN  PlacesSingle(f, cx, cy)
            => /\ PlacementSet(undone.cp) = PlacementSet(componentPlacements)
               /\ redone.cp = placed.cp

\* C4 happens: a placement succeeds on a store that already holds a
\* placement of the same component, Undo removes it and Redo puts it back
UndoRedoRoundTripHappens ==
    \E f \in Floors, cx \in ClickXs, cy \in ClickYs :
        LET placed == placeComponentOnCanvas(State, f, cx, cy)
            undone == undoLastPlacement(placed)
            redone == redoLastPlacement(undone)
        IN  /\ PlacesSingle(f, cx, cy)
            /\ componentPlacements[placementData.componentIndex].present
            /\ undone.cp # placed.cp
            /\ redone.cp = placed.cp

\* C5: Delete of the selected placement followed by Undo leaves the same
\* set of placements as before the Delete.
DeleteUndoRestores ==
    LET deleted == deleteSelectedComponent(State)
    IN  (HasSelection(State) /\ deleted.cp # componentPlacements)
        => PlacementSet(undoLastPlacement(deleted).cp) = PlacementSet(componentPlacements)

\* C6: every committed mutation of the store (a placement, a move, a
\* delete, a resize commit) leaves the redo stack empty.
CommitClearsRedo ==
    /\ \A f \in Floors, cx \in ClickXs, cy \in ClickYs :
          /\ LET placed == placeComponentOnCanvas(State, f, cx, cy)
             IN  (isPlacingComponent /\ placed.cp # componentPlacements)
                 => placed.redo = <<>>
          /\ LET moved == handleComponentMove(State, f, cx, cy)
             IN  (HasSelection(State) /\ ~HasSelection(moved) /\ ~HasHole(moved.cp))
                 => moved.redo = <<>>
    /\ LET deleted == deleteSelectedComponent(State)
       IN  (HasSelection(State) /\ deleted.cp # componentPlacements)
           => deleted.redo = <<>>
    /\ LET resized == commitResize(State)
       IN  (resizeState.isResizing /\ ~resized.rs.isResizing
                /\ resized.cp # componentPlacements)
           => resized.redo = <<>>

\* C7: after a successful resize commit, length * width of the stored
\* placement is within 0.01 square meters of the area captured at the
\* start of the resize.
ResizeKeepsArea ==
    LET rs == resizeState
        resized == commitResize(State)
        pos == resized.cp[rs.componentIndex].floors[rs.placementIndex]
    IN  (rs.isResizing /\ ~resized.rs.isResizing /\ resized.cp # componentPlacements)
        => 100 * Abs(pos.length * pos.width - rs.componentArea) < U * U

\* C8: for an original rectangle inside the floor with both dimensions at
\* least MIN_DIM, the resize transform yields a length and a width of at
\* least MIN_DIM.
ResizeKeepsMinimum ==
    LET rs == resizeState
    IN  (/\ rs.isResizing
         /\ InsideFloor(rs.originalX, rs.originalY, rs.originalLength, rs.originalWidth)
         /\ QLe(MIN_DIM, Q(rs.originalLength)) /\ QLe(MIN_DIM, Q(rs.originalWidth)))
        => QLe(MIN_DIM, rs.currentLength) /\ QLe(MIN_DIM, rs.currentWidth)

\* C9: a non-null result of findValidPosition is a position where the
\* rectangle overlaps no placement of that floor, those of the excluded
\* component aside.
ResolvedPositionIsFree ==
    \A f \in Floors, cx \in ClickXs, cy \in ClickYs, exclude \in {-1} \cup Components :
        LET data == placementData
            want == ClickPosition(cx, cy, data.length, data.width)
            position == findValidPosition(componentPlacements, f, want.x, want.y,
                            data.length, data.width, floorLength, floorWidth, exclude)
        IN  (isPlacingComponent /\ position.status = "ok")
            => ~Blocked(componentPlacements, f, position.x, position.y,
                        data.length, data.width, exclude)

\* C9 happens: the desired position is taken and the resolver answers with
\* another one
ResolvedPositionIsFreeHappens ==
    \E f \in Floors, cx \in ClickXs, cy \in ClickYs, exclude \in {-1} \cup Components :
        LET data == placementData
            want == ClickPosition(cx, cy, data.length, data.width)
            position == findValidPosition(componentPlacements, f, want.x, want.y,
                            data.length, data.width, floorLength, floorWidth, exclude)
        IN  /\ isPlacingComponent /\ position.status = "ok"
            /\ Blocked(componentPlacements, f, want.x, want.y,
                       data.length, data.width, exclude)
            /\ \E ci \in Slots(componentPlacements) :
                  ci[1] = exclude /\ At(componentPlacements, ci).floor = f

\* C10: a non-null result (x, y) of findValidPosition lies within
\* [0, floorLength - length] x [0, floorWidth - width].
ResolvedPositionInsideFloor ==
    \A f \in Floors, cx \in ClickXs, cy \in ClickYs :
        LET data == placementData
            want == ClickPosition(cx, cy, data.length, data.width)
            position == findValidPosition(componentPlacements, f, want.x, want.y,
                            data.length, data.width, floorLength, floorWidth, -1)
        IN  (isPlacingComponent /\ position.status = "ok")
            => InsideFloor(position.x, position.y, data.length, data.width)

\* the rectangle lies inside a floor of length fl and width fw
Inside(x, y, length, width, fl, fw) ==
    /\ 0 <= x /\ 0 <= y
    /\ x + length <= fl
    /\ y + width <= fw

\* the whole meter nearest to v >= 0, halves upwards
NearestMeter(v) ==
    CHOOSE m \in {k * U : k \in 0..(v \div U + 1)} : 2 * m - U <= 2 * v /\ 2 * v < 2 * m + U

\* v brought into 0..hi (0 when hi is negative)
Clamped(v, hi) == IF v > hi THEN (IF hi < 0 THEN 0 ELSE hi) ELSE IF v < 0 THEN 0 ELSE v

\* the candidate positions <<x, y>> of a request: 8 around each obstacle
\* (a placement of floor f not of component `exclude`) and 4 floor-boundary
\* alignments, each clamped and rounded to a whole meter
CandidatePositions(cp, f, x, y, length, width, fl, fw, exclude) ==
    LET obstacles == {At(cp, ci) : ci \in {cj \in Slots(cp) :
                                      cj[1] # exclude /\ At(cp, cj).floor = f}}
        Besides(o) == {o.x + o.length, o.x - length}
        AboveBelow(o) == {o.y + o.width, o.y - width}
        around == UNION {(Besides(o) \X {y}) \cup ({x} \X AboveBelow(o))
                            \cup (Besides(o) \X AboveBelow(o)) : o \in obstacles}
        edges == {<<0, y>>, <<fl - length, y>>, <<x, 0>>, <<x, fw - width>>}
    IN  {<<NearestMeter(Clamped(r[1], fl - length)),
           NearestMeter(Clamped(r[2], fw - width))>> : r \in around \cup edges}

\* C11: findValidPosition returns exactly the desired (x, y) whenever the
\* rectangle at the desired position lies inside the floor and overlaps no
\* placement of that floor other than those of the excluded component.
DesiredPositionKept ==
    (/\ probe.position.status # "uncalled"
     /\ Inside(probe.x, probe.y, probe.length, probe.width, probe.fl, probe.fw)
     /\ ~Blocked(probe.cp, probe.floorIndex, probe.x, probe.y,
                 probe.length, probe.width, probe.exclude))
    => probe.position = [status |-> "ok", x |-> probe.x, y |-> probe.y]

\* a free desired position that shares an edge with a stored placement
DesiredPositionKeptHappens ==
    /\ probe.position = [status |-> "ok", x |-> probe.x, y |-> probe.y]
    /\ Inside(probe.x, probe.y, probe.length, probe.width, probe.fl, probe.fw)
    /\ ~Blocked(probe.cp, probe.floorIndex, probe.x, probe.y,
                probe.length, probe.width, probe.exclude)
    /\ \E ci \in Slots(probe.cp) :
          LET p == At(probe.cp, ci)
          IN  /\ p.floor = probe.floorIndex /\ ci[1] # probe.exclude
              /\ p.x + p.length = probe.x
              /\ Intersects(probe.x - 1, probe.y, probe.length, probe.width, p)

\* C12: when the desired position overlaps, findValidPosition returns a
\* non-overlapping candidate of minimum Euclidean distance to the desired
\* point, and null exactly when no candidate is non-overlapping (as when
\* one placement fills the floor).
NearestFreeCandidate ==
    LET free == {c \in CandidatePositions(probe.cp, probe.floorIndex, probe.x, probe.y,
                        probe.length, probe.width, probe.fl, probe.fw, probe.exclude) :
                    ~Blocked(probe.cp, probe.floorIndex, c[1], c[2],
                             probe.length, probe.width, probe.exclude)}
        Far2(c) == (c[1] - probe.x) * (c[1] - probe.x) + (c[2] - probe.y) * (c[2] - probe.y)
        found == <<probe.position.x, probe.position.y>>
    IN  (/\ probe.position.status # "uncalled"
         /\ Blocked(probe.cp, probe.floorIndex, probe.x, probe.y,
                    probe.length, probe.width, probe.exclude))
        => /\ (probe.position.status = "null") <=> (free = {})
           /\ free # {} =>
                 /\ probe.position.status = "ok"
                 /\ found \in free
                 /\ \A c \in free : Far2(found) <= Far2(c)

\* an overlapping desired position with free candidates at different
\* distances, of which the nearest is not the nearest along the x axis
NearestFreeCandidateHappens ==
    LET free == {c \in CandidatePositions(probe.cp, probe.floorIndex, probe.x, probe.y,
                        probe.length, probe.width, probe.fl, probe.fw, probe.exclude) :
                    ~Blocked(probe.cp, probe.floorIndex, c[1], c[2],
                             probe.length, probe.width, probe.exclude)}
    IN  /\ probe.position.status = "ok"
        /\ Blocked(probe.cp, probe.floorIndex, probe.x, probe.y,
                   probe.length, probe.width, probe.exclude)
        /\ \E c \in free : c[1] = probe.x /\ probe.position.x # probe.x

\* one placement fills the floor and the resolver returns null
FilledFloorGivesNull ==
    /\ probe.position.status = "null"
    /\ \E ci \in Slots(probe.cp) :
          LET p == At(probe.cp, ci)
          IN  /\ p.floor = probe.floorIndex
              /\ p.x = 0 /\ p.y = 0 /\ p.length = probe.fl /\ p.width = probe.fw

\* C13: with a single obstacle and whole-meter sizes, findValidPosition
\* returns a non-overlapping position (not null) when the floor has room
\* for the requested rectangle beside the obstacle along the x or the y
\* axis, as for a 5x5 request at (0,0) on a 10x10 floor with a 5x5
\* placement at (0,0).
RoomBesideObstacleIsFound ==
    LET obstacles == {ci \in Slots(probe.cp) :
                         ci[1] # probe.exclude /\ At(probe.cp, ci).floor = probe.floorIndex}
        Whole(v) == v % U = 0
    IN  \A ci \in obstacles :
          LET o == At(probe.cp, ci)
          IN  (/\ probe.position.status # "uncalled"
               /\ obstacles = {ci}
               /\ \A v \in {o.x, o.y, o.length, o.width, probe.length, probe.width,
                            probe.x, probe.y} : Whole(v)
               /\ \/ o.x >= probe.length
                  \/ probe.fl - (o.x + o.length) >= probe.length
                  \/ o.y >= probe.width
                  \/ probe.fw - (o.y + o.width) >= probe.width)
              => /\ probe.position.status = "ok"
                 /\ ~Intersects(probe.position.x, probe.position.y,
                                probe.length, probe.width, o)

\* the 5x5 request at (0,0) on the 10x10 floor with a 5x5 placement at
\* (0,0), answered with (5,0) or (0,5)
RoomBesideObstacleIsFoundHappens ==
    /\ probe.fl = 10 * U /\ probe.fw = 10 * U
    /\ probe.x = 0 /\ probe.y = 0 /\ probe.length = 5 * U /\ probe.width = 5 * U
    /\ probe.exclude = -1
    /\ probe.cp = StoreOf(NewPlacement(1, 0, 0, 5 * U, 5 * U), Hole)
    /\ probe.position.status = "ok"
    /\ <<probe.position.x, probe.position.y>> \in {<<5 * U, 0>>, <<0, 5 * U>>}

\* C14: checkOverlap(floor, x, y, length, width, exclude) is true iff some
\* stored placement p of that floor, not of component `exclude` when
\* exclude >= 0, satisfies NOT (x+length <= p.x OR p.x+p.length <= x OR
\* y+width <= p.y OR p.y+p.width <= y); touching rectangles do not overlap
\* and exclude = -1 checks every placement.
CheckOverlapIsSeparation ==
    probe.overlap # "uncalled" =>
        LET hit == \E c \in Components :
                     /\ probe.cp[c].present
                     /\ ~(probe.exclude >= 0 /\ c = probe.exclude)
                     /\ \E i \in 1..Len(probe.cp[c].floors) :
                          LET p == probe.cp[c].floors[i]
                          IN  /\ p.floor = probe.floorIndex
                              /\ ~(\/ probe.x + probe.length <= p.x
                                   \/ p.x + p.length <= probe.x
                                   \/ probe.y + probe.width <= p.y
                                   \/ p.y + p.width <= probe.y)
        IN  probe.overlap = (IF hit THEN "true" ELSE "false")

\* a rectangle that touches a stored placement along an edge and overlaps
\* nothing, checked with exclude = -1
CheckOverlapIsSeparationHappens ==
    /\ probe.overlap = "false"
    /\ probe.exclude = -1
    /\ \E ci \in Slots(probe.cp) :
          LET p == At(probe.cp, ci)
          IN  /\ p.floor = probe.floorIndex
              /\ p.x + p.length = probe.x
              /\ p.y < probe.y + probe.width /\ probe.y < p.y + p.width

\* the store and both stacks of state r are those of the current state
SameStoreAndStacks(r) ==
    /\ r.cp = componentPlacements
    /\ r.hist = placementHistory
    /\ r.redo = redoHistory

\* the overlap test of a move or a rotation of the selection: the store
\* without the element at the selected index, against the rectangle
SelectionOverlaps(f, x, y, length, width) ==
    LET c == selectedPlacement.componentIndex
    IN  /\ HasSelection(State)
        /\ componentPlacements[c].present
        /\ checkOverlap([componentPlacements EXCEPT ![c].floors =
                            RemoveAt(@, selectedPlacement.placementIndex)],
                        f, Q(x), Q(y), Q(length), Q(width), -1) = "true"

\* C15: when a move, a rotation or a resize commit is rejected because the
\* candidate rectangle overlaps another placement, the placement store
\* (the order of every placement list included), the undo stack and the
\* redo stack are as before the attempt.
RejectionChangesNothing ==
    /\ \A f \in Floors, cx \in ClickXs, cy \in ClickYs :
          LET sel == selectedPlacement
              new == MovePosition(cx, cy, sel.length, sel.width)
          IN  (~resizeState.isResizing
               /\ SelectionOverlaps(f, new.x, new.y, sel.length, sel.width))
              => SameStoreAndStacks(handleCanvasPlacement(State, f, cx, cy))
    /\ LET sel == selectedPlacement
           after == rotateSelectedComponent(State)
       IN  (/\ HasSelection(State)
            /\ componentPlacements[sel.componentIndex].present
            /\ sel.placementIndex <= Len(componentPlacements[sel.componentIndex].floors)
            /\ after.sel = sel)
           => SameStoreAndStacks(after)
    /\ (/\ resizeState.isResizing
        /\ checkOverlap(componentPlacements, resizeState.floorIndex,
                        resizeState.currentX, resizeState.currentY,
                        resizeState.currentLength, resizeState.currentWidth,
                        resizeState.componentIndex) = "true")
       => SameStoreAndStacks(handleResizeMouseUp(State))

\* a placement click at (cx, cy) on floor f for which the resolver
\* returns null
ResolvesToNull(f, cx, cy) ==
    LET data == placementData
        want == ClickPosition(cx, cy, data.length, data.width)
    IN  /\ isPlacingComponent /\ ~HasSelection(State) /\ ~resizeState.isResizing
        /\ Includes(data.floors, f)
        /\ findValidPosition(componentPlacements, f, want.x, want.y,
                             data.length, data.width,
                             floorLength, floorWidth, -1).status = "null"

\* C16: when the resolver finds no valid position for a placement click
\* (null), the click changes nothing: the placement store, the undo stack
\* and the redo stack are unchanged and the session stays in placement
\* mode for the same component.
NullResolutionRejectsClick ==
    \A f \in Floors, cx \in ClickXs, cy \in ClickYs :
        ResolvesToNull(f, cx, cy)
        => LET after == handleCanvasPlacement(State, f, cx, cy)
           IN  /\ SameStoreAndStacks(after)
               /\ after.placing
               /\ after.pd = placementData
               /\ after = State

\* a placement click that resolves to null, on a floor that holds a
\* placement
NullResolutionRejectsClickHappens ==
    \E f \in Floors, cx \in ClickXs, cy \in ClickYs :
        /\ ResolvesToNull(f, cx, cy)
        /\ \E ci \in Slots(componentPlacements) : At(componentPlacements, ci).floor = f
        /\ handleCanvasPlacement(State, f, cx, cy) = State

SelectedPlacementOf(s) == s.cp[s.sel.componentIndex].floors[s.sel.placementIndex]

\* a rotation in state s passes its overlap test: the selected placement
\* exists and the rotated rectangle, moved back inside the floor, overlaps
\* nothing in the store without the selected placement
RotationSucceeds(s) ==
    LET sel == s.sel
        c == sel.componentIndex
        floors == s.cp[c].floors
        pos == floors[sel.placementIndex]
        nx == Max(0, IF pos.x + sel.width > floorLength
                     THEN floorLength - sel.width ELSE pos.x)
        ny == Max(0, IF pos.y + sel.length > floorWidth
                     THEN floorWidth - sel.length ELSE pos.y)
    IN  /\ HasSelection(s)
        /\ s.cp[c].present
        /\ sel.placementIndex <= Len(floors)
        /\ ~IsHole(pos)
        /\ checkOverlap([s.cp EXCEPT ![c].floors = RemoveAt(@, sel.placementIndex)],
                        sel.floorIndex, Q(nx), Q(ny), Q(sel.width), Q(sel.length), -1)
             = "false"

\* a rotation in state s that succeeds swaps the length and the width of
\* the selected placement, and a second one that succeeds restores them
RotationSwaps(s) ==
    LET once == rotateSelectedComponent(s)
        twice == rotateSelectedComponent(once)
        before == SelectedPlacementOf(s)
    IN  RotationSucceeds(s)
        => /\ SelectedPlacementOf(once).length = before.width
           /\ SelectedPlacementOf(once).width = before.length
           /\ RotationSucceeds(once)
              => /\ SelectedPlacementOf(twice).length = before.length
                 /\ SelectedPlacementOf(twice).width = before.width

\* C18: a rotation that succeeds swaps the length and the width of the
\* selected placement, and two successive rotations that both succeed
\* give it its length and width again; stated of the current state and of
\* the state Ctrl+Shift+Z leads to from it.
RotateTwiceRestoresSize ==
    /\ RotationSwaps(State)
    /\ RotationSwaps(redoLastPlacement(State))

\* C19: move, rotate, delete and resize-start invoked while no selection is
\* active are no-ops: the placement store, both history stacks and the
\* session mode are unchanged, and the handlers return without an error.
NoSelectionNoOp ==
    ~HasSelection(State)
    => /\ \A f \in Floors, cx \in ClickXs, cy \in ClickYs :
             handleComponentMove(State, f, cx, cy) = State
       /\ rotateSelectedComponent(State) = State
       /\ deleteSelectedComponent(State) = State
       /\ \A f \in Floors, edge \in Edges :
             handleResizeMouseDown(State, f, edge) = State

\* the four handlers are invoked without a selection while the store and
\* the redo stack hold something
NoSelectionNoOpHappens ==
    /\ ~HasSelection(State)
    /\ Slots(componentPlacements) # {}
    /\ redoHistory # <<>>
    /\ rotateSelectedComponent(State) = State
    /\ deleteSelectedComponent(State) = State
    /\ \A f \in Floors, cx \in ClickXs, cy \in ClickYs :
          handleComponentMove(State, f, cx, cy) = State
    /\ \A f \in Floors, edge \in Edges :
          handleResizeMouseDown(State, f, edge) = State

\* C20: the session is in one mode at a time: placement mode and an active
\* selection never hold together, and entering placement mode (from the
\* modal or by undo) clears any selection.
OneModeAtATime ==
    /\ ~(isPlacingComponent /\ HasSelection(State))
    /\ \A c \in Components :
          ~HasSelection(startPlacement(State, c, Catalog[c].length,
                                       Catalog[c].width, AllFloors))
    /\ undoLastPlacement(State).placing => ~HasSelection(undoLastPlacement(State))

SelectionRefersToPlacement ==
    HasSelection(State)
    => LET sel == selectedPlacement
           entry == componentPlacements[sel.componentIndex]
       IN  /\ entry.present
           /\ sel.placementIndex \in 1..Len(entry.floors)
           /\ ~IsHole(entry.floors[sel.placementIndex])
           /\ LET p == entry.floors[sel.placementIndex]
              IN  /\ p.floor = sel.floorIndex
                  /\ p.x = sel.originalX /\ p.y = sel.originalY
                  /\ p.length = sel.length /\ p.width = sel.width

\* C24: Redo never creates an overlap: the rectangle that Redo re-inserts
\* overlaps no placement already in the store on that floor, whatever was
\* done between the Undo and the Redo (stated for stores that hold no
\* overlap before the Redo).
RedoCreatesNoOverlap ==
    (NoOverlap /\ redoHistory # <<>>)
    => LET e == redoHistory[Len(redoHistory)]
       IN  redoLastPlacement(State).cp # componentPlacements
           => ~Blocked(componentPlacements, e.floor, e.x, e.y, e.length, e.width, -1)

\* component c has the placement p in the store
Stores(cp, c, p) == cp[c].present /\ \E i \in 1..Len(cp[c].floors) : cp[c].floors[i] = p

\* the selected placement is the one the next Undo pops: the newest history
\* entry is its commit
SelectedIsNewestCommit ==
    /\ HasSelection(State) /\ placementHistory # <<>>
    /\ LET top == placementHistory[Len(placementHistory)]
           c == selectedPlacement.componentIndex
       IN  /\ top.componentIndex = c
           /\ componentPlacements[c].present
           /\ FindIndex(componentPlacements[c].floors, top) = selectedPlacement.placementIndex

\* C25: Undo still reverses a placement after it has been edited: when the
\* placement whose commit is the newest history entry is moved, the Undo
\* that pops that entry removes the placement from the store.
UndoReversesMovedPlacement ==
    SelectedIsNewestCommit
    => \A f \in Floors, cx \in ClickXs, cy \in ClickYs :
         LET c == selectedPlacement.componentIndex
             moved == handleComponentMove(State, f, cx, cy)
             p == moved.cp[c].floors[Len(moved.cp[c].floors)]
         IN  (moved.sel = NoSelection /\ moved.hist = placementHistory)
             => ~Stores(undoLastPlacement(moved).cp, c, p)

\* C26: for a component placed through the single-floor path, the number of
\* its placements in the store never exceeds its quantity, after any
\* sequence of place, move, delete, undo and redo (so not after one more
\* Redo either).
SingleFloorCountWithinQuantity ==
    \A c \in Components :
        ~Catalog[c].isMultiFloor
        => /\ PlacedCount(componentPlacements, c) <= Catalog[c].quantity
           /\ PlacedCount(redoLastPlacement(State).cp, c) <= Catalog[c].quantity

\* the rectangle being dragged meets a stored placement of its floor other
\* than the placement being resized
ResizedRectangleOverlaps(s) ==
    LET rs == s.rs
    IN  \E ci \in Slots(s.cp) :
          /\ ci # <<rs.componentIndex, rs.placementIndex>>
          /\ At(s.cp, ci).floor = rs.floorIndex
          /\ QLt(rs.currentX, QAdd(Q(At(s.cp, ci).x), Q(At(s.cp, ci).length)))
          /\ QLt(Q(At(s.cp, ci).x), QAdd(rs.currentX, rs.currentLength))
          /\ QLt(rs.currentY, QAdd(Q(At(s.cp, ci).y), Q(At(s.cp, ci).width)))
          /\ QLt(Q(At(s.cp, ci).y), QAdd(rs.currentY, rs.currentWidth))

\* C27: a resize commit is refused whenever the resized rectangle overlaps
\* any other placement on its floor, placements of the same component
\* included; only the placement being resized is exempt.
OverlappingResizeIsRefused ==
    (resizeState.isResizing /\ ResizedRectangleOverlaps(State))
    => handleResizeMouseUp(State).cp = componentPlacements

\* a resize is running and its captured slot still holds the placement
\* captured at pointer-down, which is also the selected one
ResizeCaptureIsFresh ==
    LET rs == resizeState
        c == rs.componentIndex
    IN  /\ rs.isResizing /\ HasSelection(State)
        /\ selectedPlacement.componentIndex = c
        /\ selectedPlacement.placementIndex = rs.placementIndex
        /\ componentPlacements[c].present
        /\ rs.placementIndex <= Len(componentPlacements[c].floors)
        /\ componentPlacements[c].floors[rs.placementIndex] =
             NewPlacement(rs.floorIndex, rs.originalX, rs.originalY,
                          rs.originalLength, rs.originalWidth)

\* C28: a resize commit modifies only the placement that was captured when
\* the resize started: with a rotate key between the pointer-down and the
\* pointer-up, the commit updates that same placement (which the rotation
\* re-stored as the last one of its component) or changes nothing, and
\* never changes the geometry of a different placement.
ResizeCommitsCapturedPlacement ==
    ResizeCaptureIsFresh
    => LET c == resizeState.componentIndex
           rotated == rotateSelectedComponent(State)
           up == handleResizeMouseUp(rotated)
       IN  rotated.cp # componentPlacements
           => \A d \in Components :
                /\ Len(up.cp[d].floors) = Len(rotated.cp[d].floors)
                /\ \A i \in 1..Len(rotated.cp[d].floors) :
                     up.cp[d].floors[i] # rotated.cp[d].floors[i]
                     => (d = c /\ i = Len(rotated.cp[c].floors))

\* C29: the click delivered right after the pointer-up that ends a resize
\* is not handled as a move: after pointer-down on an edge, drag,
\* pointer-up and the click at the pointer's position on the same floor,
\* the placement is where the resize (or its rejection) left it and is
\* still selected.
ClickAfterResizeIsNotAMove ==
    ResizeCaptureIsFresh
    => \A delta \in Deltas, cx \in ClickXs, cy \in ClickYs :
         LET rs == resizeState
             f == rs.floorIndex
             up == handleResizeMouseUp(handleResizeMouseMove(State, f, delta))
             px == IF rs.edge = "right" THEN rs.originalX + rs.originalLength + delta
                   ELSE IF rs.edge = "left" THEN rs.originalX + delta
                   ELSE cx
             py == IF rs.edge = "bottom" THEN rs.originalY + rs.originalWidth + delta
                   ELSE IF rs.edge = "top" THEN rs.originalY + delta
                   ELSE cy
             dragged == IF rs.edge \in {"left", "right"}
                        THEN rs.originalY <= py /\ py <= rs.originalY + rs.originalWidth
                        ELSE rs.originalX <= px /\ px <= rs.originalX + rs.originalLength
             clicked == handleCanvasPlacement(up, f, px, py)
         IN  (dragged /\ 0 <= px /\ px <= floorLength /\ 0 <= py /\ py <= floorWidth)
             => (clicked.cp = up.cp /\ clicked.sel = up.sel)

\* C30: after a floor-configuration change or a data reload has cleared the
\* placement store, no later Undo or Redo inserts into the store a
\* placement created under the previous configuration: right after the
\* clearing, neither key puts anything into the empty store.
ClearedStoreStaysClear ==
    LET reloaded == loadCsvFromString(shipData, componentPlacements, ConfiguredFile)
        cleared == {floorLengthInput(State, floorLength)}
                   \cup {[State EXCEPT !.cp = r.cp] : r \in {l \in {reloaded} : l.status = "loaded"}}
    IN  \A s \in cleared :
          /\ s.cp = EmptyStore
          /\ undoLastPlacement(s).cp = EmptyStore
          /\ redoLastPlacement(s).cp = EmptyStore

\* C31: pressing Escape during a resize drag cancels the resize only: the
\* placement keeps its original position and size, the resize is over, and
\* the selection remains active.
EscapeCancelsResizeOnly ==
    ResizeCaptureIsFresh
    => \A delta \in Deltas :
         LET dragged == handleResizeMouseMove(State, resizeState.floorIndex, delta)
             escaped == escapeKey(dragged)
         IN  /\ escaped.cp = componentPlacements
             /\ ~escaped.rs.isResizing
             /\ escaped.sel = selectedPlacement

\* C32: after an Undo with a non-empty undo stack, the popped entry is on
\* top of the redo stack and the session is in Placing mode for the undone
\* entry's component, with the entry's length and width and with every
\* floor 1..numFloors as a click target.
UndoReentersPlacing ==
    placementHistory # <<>>
    => LET top == placementHistory[Len(placementHistory)]
           undone == undoLastPlacement(State)
       IN  /\ undone.hist = SubSeq(placementHistory, 1, Len(placementHistory) - 1)
           /\ undone.redo = Append(redoHistory, top)
           /\ undone.placing
           /\ undone.pd.componentIndex = top.componentIndex
           /\ undone.pd.length = top.length /\ undone.pd.width = top.width
           /\ undone.pd.floors = [i \in 1..numFloors |-> i]

\* the session is placing a component through the single-floor path and the
\* next click is routed to the placement
PlacingSingleFloor ==
    /\ isPlacingComponent /\ ~placementData.isMultiFloor
    /\ ~HasSelection(State) /\ ~resizeState.isResizing

\* C33: after a successful single-floor placement the session stays in
\* Placing for the same component, with all floors re-armed as click
\* targets, iff the component's placed count is below its quantity;
\* otherwise it returns to Idle.
PlacingContinuesBelowQuantity ==
    PlacingSingleFloor
    => \A f \in Floors, cx \in ClickXs, cy \in ClickYs :
         LET c == placementData.componentIndex
             after == handleCanvasPlacement(State, f, cx, cy)
         IN  after.cp # componentPlacements
             => IF PlacedCount(after.cp, c) < Catalog[c].quantity
                THEN /\ after.placing
                     /\ after.pd.componentIndex = c
                     /\ after.pd.floors = [i \in 1..numFloors |-> i]
                ELSE ~after.placing

\* the session began with nothing placed, one copy of a quantity-2
\* component is in the store, and a click places the second copy
PlacingContinuesBelowQuantityHappens ==
    /\ PlacingSingleFloor
    /\ LET c == placementData.componentIndex
       IN  /\ Catalog[c].quantity = 2
           /\ PlacedCount(componentPlacements, c) = 1
           /\ Len(placementHistory) = 1
           /\ \E f \in Floors, cx \in ClickXs, cy \in ClickYs :
                LET after == handleCanvasPlacement(State, f, cx, cy)
                IN  PlacedCount(after.cp, c) = 2 /\ ~after.placing

\* the number of elements of all placement lists
TotalPlaced(cp) == PlacedCount(cp, 0) + PlacedCount(cp, 1)

\* the rectangle a move click at (cx, cy) asks for: centred on the pointer,
\* clamped into the floor, snapped to the whole meter
MoveTarget(cx, cy, length, width) ==
    [x |-> NearestMeter(Clamped(cx - length \div 2, floorLength - length)),
     y |-> NearestMeter(Clamped(cy - width \div 2, floorWidth - width))]

\* the rectangle meets a stored placement of floor f other than the one in
\* slot `moved`
BlockedForMove(cp, f, x, y, length, width, moved) ==
    \E ci \in Slots(cp) :
        /\ ci # moved
        /\ At(cp, ci).floor = f
        /\ Intersects(x, y, length, width, At(cp, ci))

\* C34: a move click whose pointer-centred, clamped and grid-snapped
\* rectangle overlaps no placement other than the one being moved (on the
\* clicked floor) removes the selected placement, appends a placement with
\* the same length and width at the new position to the end of that
\* component's list, and clears the selection; the total number of
\* placements is unchanged.
FreeMoveClickMoves ==
    (HasSelection(State) /\ ~resizeState.isResizing)
    => \A f \in Floors, cx \in ClickXs, cy \in ClickYs :
         LET sel == selectedPlacement
             c == sel.componentIndex
             to == MoveTarget(cx, cy, sel.length, sel.width)
             moved == handleCanvasPlacement(State, f, cx, cy)
         IN  ~BlockedForMove(componentPlacements, f, to.x, to.y, sel.length, sel.width,
                             <<c, sel.placementIndex>>)
             => /\ moved.cp[c].present
                /\ moved.cp[c].floors =
                     Append(RemoveAt(componentPlacements[c].floors, sel.placementIndex),
                            NewPlacement(f, to.x, to.y, sel.length, sel.width))
                /\ \A d \in Components \ {c} : moved.cp[d] = componentPlacements[d]
                /\ moved.sel = NoSelection
                /\ TotalPlaced(moved.cp) = TotalPlaced(componentPlacements)

\* in the state s, Delete removes exactly the selected placement, pushes
\* an entry holding that placement's data, and clears the selection
DeleteRemovesSelected(s) ==
    LET sel == s.sel
        c == sel.componentIndex
    IN  (/\ HasSelection(s)
         /\ s.cp[c].present
         /\ sel.placementIndex \in 1..Len(s.cp[c].floors)
         /\ ~IsHole(s.cp[c].floors[sel.placementIndex]))
        => LET p == s.cp[c].floors[sel.placementIndex]
               left == RemoveAt(s.cp[c].floors, sel.placementIndex)
               deleted == deleteSelectedComponent(s)
           IN  /\ deleted.cp[c].floors = left
               /\ deleted.cp[c].present = (left # <<>>)
               /\ \A d \in Components \ {c} : deleted.cp[d] = s.cp[d]
               /\ deleted.hist =
                    Append(s.hist,
                           [componentIndex |-> c, floor |-> p.floor, x |-> p.x, y |-> p.y,
                            length |-> p.length, width |-> p.width])
               /\ deleted.sel = NoSelection

\* C35: Delete of the selected placement removes exactly that placement
\* from the store (and the component's entry when its list becomes empty),
\* pushes onto the undo stack an entry holding the deleted placement's
\* component, floor, x, y, length and width, and clears the selection; all
\* other placements are unchanged (in every state, and so after one more
\* Redo as well).
DeleteRemovesSelectedPlacement ==
    /\ DeleteRemovesSelected(State)
    /\ DeleteRemovesSelected(redoLastPlacement(State))

\* the product of two fractions
QMul(a, b) == QNorm(a[1] * b[1], a[2] * b[2])

\* the transform has been applied to the call
Computed == probe.result # Uncomputed

\* the final bounds check, or a constraint by the other axis, changed what
\* the dragged edge asked for
ClampApplied ==
    LET asked == IF probe.edge = "right" THEN probe.originalLength + probe.delta
                 ELSE IF probe.edge = "left" THEN probe.originalLength - probe.delta
                 ELSE IF probe.edge = "bottom" THEN probe.originalWidth + probe.delta
                 ELSE probe.originalWidth - probe.delta
    IN  IF probe.edge \in {"left", "right"}
        THEN probe.result.length # Q(asked)
        ELSE probe.result.width # Q(asked)

\* C36: the resize transform preserves area exactly: for every edge and
\* every pointer delta, with an original rectangle inside the floor,
\* calculateNewDimensions returns length and width whose product equals
\* the given area, also when a boundary or minimum-dimension clamp applies.
ResizePreservesArea ==
    Computed => QMul(probe.result.length, probe.result.width) = Q(probe.componentArea)

\* a call in which a clamp applied and the length changed
ResizePreservesAreaHappens ==
    /\ Computed /\ ClampApplied
    /\ probe.result.length # Q(probe.originalLength)
    /\ QMul(probe.result.length, probe.result.width) = Q(probe.componentArea)

\* C37: the resize transform keeps the rectangle on the floor: for every
\* edge and every pointer delta, given an original rectangle inside the
\* floor with area = originalLength * originalWidth,
\* calculateNewDimensions returns x >= 0, y >= 0, x + length <= floorLength
\* and y + width <= floorWidth.
ResizeStaysOnFloor ==
    Computed
    => LET r == probe.result
       IN  /\ QLe(Q(0), r.x) /\ QLe(Q(0), r.y)
           /\ QLe(QAdd(r.x, r.length), Q(probe.fl))
           /\ QLe(QAdd(r.y, r.width), Q(probe.fw))

\* clamp(v, lo, hi) = max(lo, min(v, hi)), on fractions
QClamp(v, lo, hi) == IF QLt(hi, v) THEN (IF QLt(hi, lo) THEN lo ELSE hi) ELSE IF QLt(v, lo) THEN lo ELSE v

OneMeter == <<U, 1>>

\* what the right edge gives: x and y kept, the length clamped, the width
\* derived, and the other way round when that width does not fit
RightEdgeRule(delta, l, w, area, x, y, fl, fw) ==
    LET len == QClamp(QAdd(l, delta), OneMeter, QSub(fl, x))
        wid == QDiv(area, len)
    IN  IF QLe(wid, QSub(fw, y))
        THEN [length |-> len, width |-> wid, x |-> x, y |-> y]
        ELSE [length |-> QDiv(area, QSub(fw, y)), width |-> QSub(fw, y), x |-> x, y |-> y]

\* a result with the two axes exchanged
Transposed(r) == [length |-> r.width, width |-> r.length, x |-> r.y, y |-> r.x]

\* C38: for the right edge the transform keeps x and y and returns
\* length = clamp(originalLength + delta, 1, floorLength - x) with
\* width = area / length whenever that width fits below floorWidth - y, and
\* otherwise width = floorWidth - y with length = area / width; top and
\* bottom act on the width axis as left and right act on the length axis.
\* A 4 x 5 rectangle at (0,0) on a 100 x 100 floor gives 10 x 2 for right
\* +6 and width 2, length 10 for bottom -3.
RightEdgeFollowsRule ==
    Computed
    => LET q == probe
           delta == Q(q.delta)
           l == Q(q.originalLength)
           w == Q(q.originalWidth)
           area == Q(q.componentArea)
           x == Q(q.originalX)
           y == Q(q.originalY)
           fl == Q(q.fl)
           fw == Q(q.fw)
       IN  /\ q.edge = "right" => q.result = RightEdgeRule(delta, l, w, area, x, y, fl, fw)
           /\ q.edge = "bottom"
              => q.result = Transposed(RightEdgeRule(delta, w, l, area, y, x, fw, fl))
           /\ q.edge = "top"
              => q.result = Transposed(calculateNewDimensions("left", delta, w, l, area,
                                                              y, x, fw, fl))
           /\ (/\ q.originalLength = 4 * U /\ q.originalWidth = 5 * U
               /\ q.originalX = 0 /\ q.originalY = 0 /\ q.fl = 100 * U /\ q.fw = 100 * U)
              => /\ (q.edge = "right" /\ q.delta = 6 * U)
                    => (q.result.length = Q(10 * U) /\ q.result.width = Q(2 * U))
                 /\ (q.edge = "bottom" /\ q.delta = -3 * U)
                    => (q.result.width = Q(2 * U) /\ q.result.length = Q(10 * U))

\* the first worked example has been computed: 4 x 5, right edge, +6
RightEdgeFollowsRuleHappens ==
    /\ Computed
    /\ probe.originalLength = 4 * U /\ probe.originalWidth = 5 * U
    /\ probe.originalX = 0 /\ probe.originalY = 0
    /\ probe.fl = 100 * U /\ probe.fw = 100 * U
    /\ probe.edge = "right" /\ probe.delta = 6 * U
    /\ probe.result.length = Q(10 * U) /\ probe.result.width = Q(2 * U)

\* C39: in move mode the drag preview agrees with the commit: for every
\* pointer position on a floor, the preview rectangle is shown as valid
\* iff a click at that same position commits the move of the selected
\* placement.
PreviewAgreesWithMove ==
    (HasSelection(State) /\ ~isPlacingComponent /\ ~resizeState.isResizing)
    => \A f \in Floors, cx \in ClickXs, cy \in ClickYs :
         LET shown == drawPreview(State, handleCanvasMouseMove(State, f, cx, cy))
             clicked == handleCanvasPlacement(State, f, cx, cy)
         IN  (shown = "valid") <=> (clicked.sel = NoSelection)

=============================================================================
